---- MODULE Spec2Model ----
(***************************************************************************)
(* Export subsystem of the resume builder: the four download services      *)
(* (DownloadService, ImprovedDownloadService, RobustDownloadService in its *)
(* retrying and its simplified variant), their retry controllers, their    *)
(* per-format export pipelines and their file-save chains.                 *)
(*                                                                         *)
(* Time is in milliseconds, measured from the start of the export call     *)
(* (startTime = 0).  An error message is a sequence of words; a substring  *)
(* test of the code is a test for a contiguous run of words.  Everything   *)
(* a call emits or does is appended to one trace, in program order.        *)
(***************************************************************************)
EXTENDS Integers, Sequences, FiniteSets, TLC

VARIABLES
  svc,        \* the service class the call is made on
  fmt,        \* the requested format
  hasName,    \* resumeData.personalInfo.fullName is non-empty
  canvasApi,  \* document.createElement('canvas').getContext exists
  pc,         \* position of the call
  attempt,    \* loop variable of the retry controller
  clock,      \* Date.now() - startTime
  trace,      \* progress events, invocations, failures, delays, saves
  lastError,  \* message of the error caught last
  thrown,     \* the messages the invocations of the operation threw, in order
  outcome,    \* "pending", "resolved" or "rejected"
  rejection,  \* message the call rejected with
  lateSaves,  \* file-saves scheduled by the call that fire after it returned
  overlay,    \* the manual-instruction overlay was shown
  resumeData, \* the ResumeData handed to downloadAsWord
  document,   \* the paragraphs of the Document built from it
  filename,     \* the string handed to sanitizeFilename, as characters
  safeFileName, \* sanitizeFilename(filename)
  resanitized,  \* sanitizeFilename(safeFileName)
  isDownloading,      \* ExportOptions state: format being downloaded, or "null"
  downloadProgress,   \* ExportOptions state: the progress shown
  progressTimeout,    \* ExportOptions state: id of a watchdog timer
  failedDownloads,    \* ExportOptions state: set of formats
  showManualFallback, \* ExportOptions state: format of the panel, or "null"
  timers,             \* the armed watchdog timers, in the order armed
  idle,               \* periods of 30 s that have passed
  automaticBatching,  \* state updates outside React handlers are batched
  ops,                \* the invocations of handleDownload, in order of start
  batchPc,            \* position of the Download All handler
  batchIdx,           \* its index into formats
  batchStale,         \* progressTimeout as its closure holds it
  clicks,             \* downloads the user started one by one
  successCount,       \* successCount of the Download All handler
  failureCount,       \* its failureCount
  batchToast,         \* title of the toast it ends with, or "none"
  waiter,     \* the class whose wait for the target element is under way
  element,    \* the target element now: "absent", "zero" (in the DOM, not
              \* visible or without content) or "ready"
  elapsed,    \* Date.now() - startTime of the wait
  polls,      \* pending setTimeout(checkElement, checkInterval) timers
  observing,  \* the MutationObserver of the wait is connected
  timer,      \* the timeout timer of the wait is pending
  waitPc,     \* "idle", "waiting", "resolved" or "rejected"
  page,       \* what the selectors of the strategies match in the page
  strategy,   \* priority of the strategy detectResumeElement tries next
  bestMatch,  \* its bestMatch
  detectPc,   \* "idle", "scan", "returned" or "threw"
  images,       \* the img elements under the target element: "complete",
                \* "loading", "loaded", "errored" or "timedout"
  imageTimers,  \* whether the 5000 ms timer of each is pending
  fonts,        \* document.fonts: "absent", "loading", "ready", "rejected"
  gatePc,       \* position of ensureResourcesLoaded
  gateProgress, \* progress of its last event
  gateMs,       \* time it has waited
  fates,        \* what toBlob and createDownloadLink do for each format
  formatIndex,  \* formatIndex of convertCanvasToDownload
  convertPc,    \* "idle", "try", "blob", "timer" or "end"
  settlements,  \* the calls of resolve and reject of its promise, in order
  encodings,    \* the MIME types canvas.toBlob was called with, in order
  convertMs,    \* time its timers have taken
  preview,      \* the preview element in the page
  domChanges,   \* changes of it so far
  forceChecks,  \* calls of forceCheck so far
  config,       \* finalConfig of usePreviewReadiness
  hookPc,       \* "idle", "mounting" or "mounted"
  state,        \* its state: isReady, isChecking, error, retryCount
  interval,     \* the interval of the periodic check is set
  waiting,      \* waitForPreviewReadiness: "idle", "loop", "timer", or what
                \* it returned, "true" or "false"
  retryCount,   \* its local retryCount
  sinceStart,   \* its Date.now() - startTime
  checks,       \* the calls of checkPreviewReadiness it has made
  lastStep      \* what it did last: "none", "check" or "wait"

exportVars == <<svc, fmt, hasName, canvasApi, pc, attempt, clock, trace,
                lastError, thrown, outcome, rejection, lateSaves, overlay>>

wordVars == <<resumeData, document>>

nameVars == <<filename, safeFileName, resanitized>>

uiVars == <<isDownloading, downloadProgress, progressTimeout,
            failedDownloads, showManualFallback, timers, idle,
            automaticBatching, ops, batchPc, batchIdx, batchStale, clicks,
            successCount, failureCount, batchToast>>

\* the counts and the final toast of the Download All handler
batchTally == <<successCount, failureCount, batchToast>>

waitVars == <<waiter, element, elapsed, polls, observing, timer, waitPc>>

\* the parts of the program outside the export calls and ExportOptions
detectVars == <<page, strategy, bestMatch, detectPc>>

gateVars == <<images, imageTimers, fonts, gatePc, gateProgress, gateMs>>

convertVars ==
  <<fates, formatIndex, convertPc, settlements, encodings, convertMs>>

hookVars ==
  <<preview, domChanges, forceChecks, config, hookPc, state, interval,
    waiting, retryCount, sinceStart, checks, lastStep>>

moreVars == <<waitVars, detectVars, gateVars, convertVars, hookVars>>

\* what an export call leaves alone
besideExport == <<wordVars, nameVars, uiVars, moreVars>>

\* what the construction of the Word document leaves alone
besideWord == <<nameVars, uiVars, moreVars>>

\* what sanitizeFilename leaves alone
besideName == <<wordVars, uiVars, moreVars>>

\* what the handlers of ExportOptions leave alone
besideUi == <<exportVars, wordVars, nameVars, moreVars>>

vars == <<exportVars, besideExport>>

----------------------------------------------------------------------------
(* Bounds of the environment *)

\* duration of one slow call of the rasterizer; a fast one takes FastRasterMs
SlowRasterMs == 6000
FastRasterMs == 200

\* One attempt's environment.  dom: the target element is ready, is in the
\* DOM with zero width or height, is absent, or is absent while another
\* visible resume-like element exists ("alt").  raster: what the rasterizer
\* returns for the presets in order (a canvas, an exception, a canvas of zero
\* width or height), each call taking rasterMs.  blob: whether the encoder
\* delivers (toBlob per MIME type PNG, JPEG, WebP; the first entry also stands
\* for the PDF and the DOCX encoder).  save: which save methods throw, in the
\* order the service tries them; "nourl" is a throw of URL.createObjectURL.
GoodEnv ==
  [dom |-> "ready", raster |-> <<"ok", "ok", "ok">>, rasterMs |-> FastRasterMs,
   blob |-> <<TRUE, TRUE, TRUE>>, save |-> <<"ok", "ok", "ok">>]

Envs ==
  { GoodEnv,
    [GoodEnv EXCEPT !.dom = "zero"],
    [GoodEnv EXCEPT !.dom = "absent"],
    [GoodEnv EXCEPT !.dom = "alt"],
    [GoodEnv EXCEPT !.raster = <<"throw", "zero", "throw">>],
    [GoodEnv EXCEPT !.raster = <<"throw", "zero", "throw">>,
                    !.rasterMs = SlowRasterMs],
    [GoodEnv EXCEPT !.raster = <<"zero", "throw", "ok">>,
                    !.rasterMs = SlowRasterMs],
    [GoodEnv EXCEPT !.raster = <<"throw", "ok", "ok">>,
                    !.blob = <<FALSE, TRUE, TRUE>>],
    [GoodEnv EXCEPT !.blob = <<FALSE, FALSE, FALSE>>],
    [GoodEnv EXCEPT !.save = <<"throw", "ok", "ok">>],
    [GoodEnv EXCEPT !.save = <<"throw", "throw", "ok">>],
    [GoodEnv EXCEPT !.save = <<"throw", "throw", "throw">>],
    [GoodEnv EXCEPT !.save = <<"nourl", "throw", "throw">>] }

Services == {"basic", "fallback", "improved", "robust", "simple"}
Formats  == {"pdf", "word", "png"}

----------------------------------------------------------------------------
(* Trace items and messages *)

Item(k, stage, progress, n, max, ms) ==
  [k |-> k, stage |-> stage, progress |-> progress, attempt |-> n,
   max |-> max, ms |-> ms]

Includes(s, p) ==
  \E i \in 1..(Len(s) - Len(p) + 1) : SubSeq(s, i, i + Len(p) - 1) = p

\* the result of a step of a pipeline: what it appended to the trace, how
\* long it took, and the message it threw (<<>> when it returned)
Pass(tr, ms) ==
  [trace |-> tr, ms |-> ms, late |-> 0, overlay |-> FALSE, err |-> <<>>]

Throw(msg, ms) ==
  [trace |-> <<>>, ms |-> ms, late |-> 0, overlay |-> FALSE, err |-> msg]

\* sequential composition: b runs only when a returned
Sequel(a, b) ==
  IF a.err # <<>> THEN a
  ELSE [trace |-> a.trace \o b.trace, ms |-> a.ms + b.ms,
        late |-> a.late + b.late, overlay |-> a.overlay \/ b.overlay,
        err |-> b.err]

\* The two steps are evaluated once each, then sequenced.
Then(a, b) == CHOOSE r \in { Sequel(x[1], x[2]) : x \in {<<a, b>>} } : TRUE

RECURSIVE Run(_)
Run(steps) ==
  IF steps = <<>> THEN Pass(<<>>, 0)
  ELSE Then(Head(steps), Run(Tail(steps)))

updateProgress(stage, progress) ==
  Pass(<<Item("event", stage, progress, 0, 0, 0)>>, 0)

delay(ms) == Pass(<<Item("wait", "", 0, 0, 0, ms)>>, ms)

\* an await of an asynchronous encoder: canvas.toBlob, Packer.toBuffer
Encoded == Pass(<<Item("encode", "", 0, 0, 0, 0)>>, 0)


Min(a, b) == IF a <= b THEN a ELSE b

RECURSIVE Pow(_, _)
Pow(b, e) == IF e = 0 THEN 1 ELSE b * Pow(b, e - 1)

----------------------------------------------------------------------------
(* RobustDownloadService, retrying variant *)

RobustMaxAttempts == 5
RobustBaseDelay == 2000
RobustMaxDelay == 30000
RobustBackoffMultiplier == 2
RobustTimeoutMs == 60000

RobustCalculateRetryDelay(n) ==
  Min(RobustBaseDelay * Pow(RobustBackoffMultiplier, n), RobustMaxDelay)

RasterErrorMsg == <<"rasterizer", "error">>
InvalidCanvasMsg == <<"Canvas", "has", "invalid", "dimensions">>

\* the state of the DOM that detectResumeElement queries
DetectItem(dom) == Item("detect", dom, 0, 0, 0, 0)

RobustNotFoundMsg ==
  <<"Could", "not", "find", "any", "suitable", "resume", "element.", "Tried",
    "7", "detection", "strategies.">>

\* scoreElement gives 0 to an element outside the DOM or of zero width or
\* height, and detectResumeElement throws when no candidate scores above 0
RobustDetectResumeElement(dom) ==
  Then(Pass(<<DetectItem(dom)>>, 0),
       IF dom \in {"ready", "alt"} THEN Pass(<<>>, 0)
       ELSE Throw(RobustNotFoundMsg, 0))

RobustEnsureResourcesLoadedMislabelled ==
  Run(<< updateProgress("loading", 15),
         updateProgress("loading", 25),
         delay(1500),
         updateProgress("detecting", 35) >>)

RobustEnsureResourcesLoaded ==
  Run(<< updateProgress("loading", 15),
         updateProgress("loading", 25),
         delay(1500),
         updateProgress("loading", 35) >>)

RobustPrepareElementForCapture == Run(<< delay(300), delay(500) >>)

RasterMark(i) == Item("raster", "", 0, i, 0, 0)

RasterFailure(result) ==
  IF result = "throw" THEN RasterErrorMsg ELSE InvalidCanvasMsg

\* scale of the presets High Quality, Medium Quality, Basic Quality
CaptureScales == <<3, 2, 1>>

\* a call of html2canvas with preset i (0-based) and what came of it
PresetMark(i, result) == Item("raster", result, 0, i, CaptureScales[i + 1], 0)

CaptureAcceptsAnyCanvas(result) == result # "throw"

\* if (canvas.width > 0 && canvas.height > 0) return canvas
CaptureAccepts(result) == result = "ok"

\* the loop over the three capture strategies, from strategy i (0-based)
RECURSIVE RobustCaptureFrom(_, _, _, _)
RobustCaptureFrom(i, raster, rasterMs, last) ==
  IF i >= 3
  THEN Throw(<<"All", "3", "canvas", "capture", "strategies", "failed.",
               "Last", "error:">> \o last, 0)
  ELSE LET call == Then(updateProgress("generating", 50 + (i * 10)),
                        Pass(<<PresetMark(i, raster[i + 1])>>, rasterMs))
       IN IF CaptureAccepts(raster[i + 1]) THEN call
          ELSE Run(<< call,
                      IF i < 2 THEN delay(1000) ELSE delay(0),
                      RobustCaptureFrom(i + 1, raster, rasterMs,
                                        RasterFailure(raster[i + 1])) >>)

RobustCaptureElementAsCanvas(raster, rasterMs) ==
  RobustCaptureFrom(0, raster, rasterMs, <<>>)

SaveItem(i) == Item("save", "", 0, i, 0, 0)

\* downloadMethods, in the order of the array: the hidden anchor with a
\* download attribute, FileSaver's saveAs, the data URL
RobustDownloadMethods == <<"anchor", "saveAs", "dataUrl">>

TryItem(i) == Item("try", RobustDownloadMethods[i], 0, i, 0, 0)

ObjectUrlErrorMsg == <<"URL.createObjectURL", "failed">>

\* the overlay is built around URL.createObjectURL(blob), outside any try:
\* where that call throws (save[1] = "nourl") the overlay is never attached
RobustShowManualDownloadInstructions(save) ==
  IF save[1] = "nourl" THEN Throw(ObjectUrlErrorMsg, 0)
  ELSE [Pass(<<>>, 0) EXCEPT !.overlay = TRUE]

\* the loop over downloadMethods, from method i (0-based); the click of the
\* data-URL method happens in FileReader's onload, after createDownloadLink
\* has returned
RECURSIVE RobustDownloadMethodsFrom(_, _)
RobustDownloadMethodsFrom(i, save) ==
  IF i >= 3
  THEN RobustShowManualDownloadInstructions(save)
  ELSE Then(Pass(<<TryItem(i + 1)>>, 0),
            IF save[i + 1] = "ok"
            THEN IF i = 2 THEN [Pass(<<>>, 0) EXCEPT !.late = 1]
                 ELSE Pass(<<SaveItem(i + 1)>>, 0)
            ELSE RobustDownloadMethodsFrom(i + 1, save))

RobustCreateDownloadLink(save) == RobustDownloadMethodsFrom(0, save)

BlobNullMsg == <<"Failed", "to", "generate", "image", "blob">>
MissingNameMsg ==
  <<"Resume", "data", "is", "incomplete", "-", "missing", "full", "name">>
EncoderErrorMsg == <<"encoder", "error">>

RobustDownloadAsPNG(env) ==
  Run(<< updateProgress("detecting", 5),
         RobustDetectResumeElement(env.dom),
         updateProgress("preparing", 10),
         RobustEnsureResourcesLoaded,
         RobustPrepareElementForCapture,
         updateProgress("generating", 40),
         RobustCaptureElementAsCanvas(env.raster, env.rasterMs),
         updateProgress("generating", 80),
         IF env.blob[1] THEN RobustCreateDownloadLink(env.save)
         ELSE Throw(BlobNullMsg, 0),
         updateProgress("complete", 100) >>)

RobustDownloadAsPDF(env) ==
  Run(<< updateProgress("detecting", 5),
         RobustDetectResumeElement(env.dom),
         updateProgress("preparing", 10),
         RobustEnsureResourcesLoaded,
         RobustPrepareElementForCapture,
         updateProgress("generating", 30),
         RobustCaptureElementAsCanvas(env.raster, env.rasterMs),
         updateProgress("generating", 60),
         IF env.blob[1] THEN Pass(<<>>, 0) ELSE Throw(EncoderErrorMsg, 0),
         updateProgress("downloading", 90),
         RobustCreateDownloadLink(env.save),
         updateProgress("complete", 100) >>)

RobustDownloadAsWord(name, env) ==
  Run(<< updateProgress("preparing", 10),
         IF name THEN Pass(<<>>, 0) ELSE Throw(MissingNameMsg, 0),
         updateProgress("generating", 50),
         updateProgress("downloading", 90),
         IF env.blob[1] THEN Pass(<<>>, 0) ELSE Throw(EncoderErrorMsg, 0),
         RobustCreateDownloadLink(env.save),
         updateProgress("complete", 100) >>)

RobustOperation(f, name, env) ==
  CASE f = "png" -> RobustDownloadAsPNG(env)
    [] f = "pdf" -> RobustDownloadAsPDF(env)
    [] f = "word" -> RobustDownloadAsWord(name, env)

OperationName(f) ==
  CASE f = "png" -> <<"PNG", "generation">>
    [] f = "pdf" -> <<"PDF", "generation">>
    [] f = "word" -> <<"Word", "document", "generation">>

RobustTimedOutMsg ==
  <<"Operation", "timed", "out", "after", ToString(RobustTimeoutMs) \o "ms">>

RobustFailedMsg(f, last) ==
  OperationName(f)
    \o <<"failed", "after", ToString(RobustMaxAttempts), "attempts.", "Last",
         "error:">>
    \o last

RobustIsNonRecoverableMistyped(msg) ==
  Includes(msg, <<"not", "found">>) \/ Includes(msg, <<"detection", "strategy">>)

RobustIsNonRecoverable(msg) ==
  Includes(msg, <<"not", "find">>) \/ Includes(msg, <<"detection", "strategies.">>)

\* if (Date.now() - startTime > this.retryConfig.timeoutMs)
RobustTimedOut(now) == now > RobustTimeoutMs

RobustAnnouncesRetryLate(n) == n > 2

\* if (attempt > 1), the guard of the 'retrying' event and the backoff delay
RobustAnnouncesRetry(n) == n > 1

RobustShouldStopEarly(msg, n) ==
  RobustIsNonRecoverable(msg) \/ n >= RobustMaxAttempts - 1

\* the two breaks of the catch block
RobustShouldStop(msg, n) ==
  RobustIsNonRecoverable(msg) \/ n = RobustMaxAttempts

\* top of an iteration of the for loop: the timeout check, then, inside the
\* try, the 'retrying' event of an attempt after the first
RobustLoopHead ==
  /\ svc = "robust" /\ pc = "loop"
  /\ IF RobustTimedOut(clock)
     THEN /\ outcome' = "rejected"
          /\ rejection' = RobustTimedOutMsg
          /\ pc' = "done"
          /\ UNCHANGED trace
     ELSE /\ IF RobustAnnouncesRetry(attempt)
             THEN /\ trace' = Append(trace,
                       Item("event", "retrying", 10, attempt, RobustMaxAttempts, 0))
                  /\ pc' = "backoff"
             ELSE /\ pc' = "invoke"
                  /\ UNCHANGED trace
          /\ UNCHANGED <<outcome, rejection>>
  /\ UNCHANGED <<svc, fmt, hasName, canvasApi, attempt, clock, lastError,
                 thrown, lateSaves, overlay>>
  /\ UNCHANGED besideExport

\* await this.delay(retryDelay)
RobustBackoff ==
  /\ svc = "robust" /\ pc = "backoff"
  /\ LET retryDelay == RobustCalculateRetryDelay(attempt - 1)
     IN /\ clock' = clock + retryDelay
        /\ trace' = Append(trace, Item("delay", "", 0, attempt, 0, retryDelay))
  /\ pc' = "invoke"
  /\ UNCHANGED <<svc, fmt, hasName, canvasApi, attempt, lastError, thrown,
                 outcome, rejection, lateSaves, overlay>>
  /\ UNCHANGED besideExport

\* await operation(), the catch block and the throw after the loop
RobustInvoke ==
  /\ svc = "robust" /\ pc = "invoke"
  /\ \E env \in Envs : \E r \in {RobustOperation(fmt, hasName, env)} :
       LET started == Append(trace, Item("invoke", "", 0, attempt, 0, clock))
       IN /\ clock' = clock + r.ms
          /\ lateSaves' = lateSaves + r.late
          /\ overlay' = (overlay \/ r.overlay)
          /\ IF r.err = <<>>
             THEN /\ trace' = started \o r.trace
                  /\ outcome' = "resolved"
                  /\ pc' = "done"
                  /\ UNCHANGED <<attempt, lastError, thrown, rejection>>
             ELSE /\ trace' = (started \o r.trace)
                                \o <<Item("fail", "", 0, attempt, 0, clock + r.ms)>>
                  /\ lastError' = r.err
                  /\ thrown' = Append(thrown, r.err)
                  /\ IF RobustShouldStop(r.err, attempt)
                     THEN /\ outcome' = "rejected"
                          /\ rejection' = RobustFailedMsg(fmt, r.err)
                          /\ pc' = "done"
                          /\ UNCHANGED attempt
                     ELSE /\ attempt' = attempt + 1
                          /\ pc' = "loop"
                          /\ UNCHANGED <<outcome, rejection>>
  /\ UNCHANGED <<svc, fmt, hasName, canvasApi>>
  /\ UNCHANGED besideExport

----------------------------------------------------------------------------
(* ImprovedDownloadService *)

ImprovedMaxAttempts == 3
ImprovedBaseDelay == 1000
ImprovedMaxDelay == 10000
ImprovedBackoffMultiplier == 2

ImprovedCalculateRetryDelay(n) ==
  Min(ImprovedBaseDelay * Pow(ImprovedBackoffMultiplier, n - 1), ImprovedMaxDelay)

ImprovedNotReadyMsg(timeout) ==
  <<"Element", "with", "ID", "not", "found", "or", "not", "ready", "within",
    ToString(timeout) \o "ms">>

\* resolves at once with an element that is visible, in the DOM and has
\* content; otherwise polls until the timeout and rejects
ImprovedWaitForElementAdvanced(dom, timeout) ==
  IF dom = "ready" THEN Pass(<<>>, 0)
  ELSE Throw(ImprovedNotReadyMsg(timeout), timeout)

ImprovedPrepareElementForCapture == Run(<< delay(500), delay(1000) >>)

RECURSIVE ImprovedCaptureFrom(_, _, _, _)
ImprovedCaptureFrom(i, raster, rasterMs, last) ==
  IF i >= 3
  THEN Throw(<<"All", "canvas", "capture", "methods", "failed.", "Last",
               "error:">> \o last, 0)
  ELSE LET call == Pass(<<PresetMark(i, raster[i + 1])>>, rasterMs)
       IN IF CaptureAccepts(raster[i + 1]) THEN call
          ELSE Run(<< call,
                      IF i < 2 THEN delay(1000) ELSE delay(0),
                      ImprovedCaptureFrom(i + 1, raster, rasterMs,
                                          RasterFailure(raster[i + 1])) >>)

ImprovedCaptureElementWithFallbacks(raster, rasterMs) ==
  ImprovedCaptureFrom(0, raster, rasterMs, <<>>)

AllMethodsFailedMsg == <<"All", "download", "methods", "failed.">>

\* saveAs; then the hidden anchor, clicked by link.click() and again by
\* dispatchEvent(new MouseEvent('click')); then window.open, which saves
\* nothing; then the throw
ImprovedCreateDownloadLink(save) ==
  IF save[1] = "ok" THEN Pass(<<SaveItem(1)>>, 0)
  ELSE IF save[2] = "ok" THEN Pass(<<SaveItem(2), SaveItem(2)>>, 0)
  ELSE IF save[3] = "ok" THEN Pass(<<Item("window", "", 0, 3, 0, 0)>>, 0)
  ELSE Throw(AllMethodsFailedMsg, 0)

\* tryFormat, from formats[i] (0-based): PNG, JPEG, WebP
RECURSIVE ImprovedTryFormat(_, _, _)
ImprovedTryFormat(i, blob, save) ==
  IF i >= 3
  THEN Throw(<<"All", "image", "format", "conversions", "failed">>, 0)
  ELSE LET link == ImprovedCreateDownloadLink(save)
       IN IF blob[i + 1] /\ link.err = <<>>
          THEN Then(Pass(<<Item("encode", "", 0, i, 0, 0)>>, 0), link)
          ELSE Run(<< Pass(<<Item("encode", "", 0, i, 0, 0)>>, 0),
                      delay(100),
                      ImprovedTryFormat(i + 1, blob, save) >>)

ImprovedConvertCanvasToDownload(blob, save) == ImprovedTryFormat(0, blob, save)

UnableToFindMsg == <<"Unable", "to", "find", "resume", "element.">>

\* the catch of downloadAsPNG around waitForElementAdvanced: the fallback
\* selectors take the first match of non-zero width and height
ImprovedFallbackDetection(dom, waited) ==
  Run(<< Pass(<<>>, waited.ms),
         updateProgress("preparing", 15),
         IF dom = "alt" THEN Pass(<<>>, 0) ELSE Throw(UnableToFindMsg, 0) >>)

ImprovedDownloadAsPNG(env) ==
  LET waited == ImprovedWaitForElementAdvanced(env.dom, 15000)
  IN Run(<< updateProgress("preparing", 10),
            IF waited.err = <<>> THEN waited
            ELSE ImprovedFallbackDetection(env.dom, waited),
            updateProgress("preparing", 30),
            ImprovedPrepareElementForCapture,
            updateProgress("generating", 50),
            ImprovedCaptureElementWithFallbacks(env.raster, env.rasterMs),
            updateProgress("generating", 80),
            updateProgress("downloading", 90),
            ImprovedConvertCanvasToDownload(env.blob, env.save),
            updateProgress("complete", 100) >>)

ImprovedDownloadAsPDF(env) ==
  Run(<< updateProgress("preparing", 10),
         ImprovedWaitForElementAdvanced(env.dom, 15000),
         ImprovedPrepareElementForCapture,
         updateProgress("generating", 30),
         ImprovedCaptureElementWithFallbacks(env.raster, env.rasterMs),
         updateProgress("generating", 60),
         IF env.blob[1] THEN Pass(<<>>, 0) ELSE Throw(EncoderErrorMsg, 0),
         updateProgress("downloading", 90),
         ImprovedCreateDownloadLink(env.save),
         updateProgress("complete", 100) >>)

ImprovedDownloadAsWord(name, env) ==
  Run(<< updateProgress("preparing", 10),
         IF name THEN Pass(<<>>, 0) ELSE Throw(MissingNameMsg, 0),
         updateProgress("generating", 50),
         updateProgress("downloading", 90),
         IF env.blob[1] THEN Pass(<<>>, 0) ELSE Throw(EncoderErrorMsg, 0),
         ImprovedCreateDownloadLink(env.save),
         updateProgress("complete", 100) >>)

ImprovedOperation(f, name, env) ==
  CASE f = "png" -> ImprovedDownloadAsPNG(env)
    [] f = "pdf" -> ImprovedDownloadAsPDF(env)
    [] f = "word" -> ImprovedDownloadAsWord(name, env)

ImprovedFailedMsg(f, last) ==
  OperationName(f)
    \o <<"failed", "after", ToString(ImprovedMaxAttempts), "attempts.", "Last",
         "error:">>
    \o last

\* if (attempt > 1), the guard of the 'retrying' event and the backoff delay
ImprovedAnnouncesRetry(n) == n > 1

ImprovedShouldStopEarly(n) == n >= ImprovedMaxAttempts - 1

\* if (attempt === this.retryConfig.maxAttempts) break
ImprovedShouldStop(n) == n = ImprovedMaxAttempts

\* top of an iteration of the for loop: inside the try, the 'retrying' event
\* of an attempt after the first
ImprovedLoopHead ==
  /\ svc = "improved" /\ pc = "loop"
  /\ IF ImprovedAnnouncesRetry(attempt)
     THEN /\ trace' = Append(trace,
               Item("event", "retrying", 10, attempt, ImprovedMaxAttempts, 0))
          /\ pc' = "backoff"
     ELSE /\ pc' = "invoke"
          /\ UNCHANGED trace
  /\ UNCHANGED <<svc, fmt, hasName, canvasApi, attempt, clock, lastError,
                 thrown, outcome, rejection, lateSaves, overlay>>
  /\ UNCHANGED besideExport

\* await this.delay(delay)
ImprovedBackoff ==
  /\ svc = "improved" /\ pc = "backoff"
  /\ LET retryDelay == ImprovedCalculateRetryDelay(attempt - 1)
     IN /\ clock' = clock + retryDelay
        /\ trace' = Append(trace, Item("delay", "", 0, attempt, 0, retryDelay))
  /\ pc' = "invoke"
  /\ UNCHANGED <<svc, fmt, hasName, canvasApi, attempt, lastError, thrown,
                 outcome, rejection, lateSaves, overlay>>
  /\ UNCHANGED besideExport

\* await operation(), the catch block and the throw after the loop
ImprovedInvoke ==
  /\ svc = "improved" /\ pc = "invoke"
  /\ \E env \in Envs : \E r \in {ImprovedOperation(fmt, hasName, env)} :
       LET started == Append(trace, Item("invoke", "", 0, attempt, 0, clock))
       IN /\ clock' = clock + r.ms
          /\ lateSaves' = lateSaves + r.late
          /\ overlay' = (overlay \/ r.overlay)
          /\ IF r.err = <<>>
             THEN /\ trace' = started \o r.trace
                  /\ outcome' = "resolved"
                  /\ pc' = "done"
                  /\ UNCHANGED <<attempt, lastError, thrown, rejection>>
             ELSE /\ trace' = (started \o r.trace)
                                \o <<Item("fail", "", 0, attempt, 0, clock + r.ms)>>
                  /\ lastError' = r.err
                  /\ thrown' = Append(thrown, r.err)
                  /\ IF ImprovedShouldStop(attempt)
                     THEN /\ outcome' = "rejected"
                          /\ rejection' = ImprovedFailedMsg(fmt, r.err)
                          /\ pc' = "done"
                          /\ UNCHANGED attempt
                     ELSE /\ attempt' = attempt + 1
                          /\ pc' = "loop"
                          /\ UNCHANGED <<outcome, rejection>>
  /\ UNCHANGED <<svc, fmt, hasName, canvasApi>>
  /\ UNCHANGED besideExport

----------------------------------------------------------------------------
(* DownloadService *)

BasicNotFoundMsg(timeout) ==
  <<"Element", "with", "ID", "not", "found", "within", ToString(timeout) \o "ms">>

\* resolves with the element of that id as soon as it is in the DOM, whatever
\* its size, and rejects when the timeout fires first
BasicWaitForElement(dom, timeout) ==
  IF dom \in {"ready", "zero"} THEN Pass(<<>>, 0)
  ELSE Throw(BasicNotFoundMsg(timeout), timeout)

NotVisibleMsg ==
  <<"Resume", "element", "is", "not", "visible", "or", "has", "no", "content">>
CaptureFailedMsg == <<"Failed", "to", "capture", "resume", "content">>
UnableToDownloadMsg == <<"Unable", "to", "download", "file.">>
NoSupportMsg ==
  <<"Your", "browser", "does", "not", "support", "file", "downloads">>

\* saveAs, and in its catch the hidden anchor, and in its catch the throw
BasicCreateDownloadLink(save) ==
  IF save[1] = "ok" THEN Pass(<<SaveItem(1)>>, 0)
  ELSE IF save[2] = "ok" THEN Pass(<<SaveItem(2)>>, 0)
  ELSE Throw(UnableToDownloadMsg, 0)

\* the visibility check, the settling delay and the single html2canvas call
BasicCapture(env) ==
  Run(<< IF env.dom = "zero" THEN Throw(NotVisibleMsg, 0) ELSE Pass(<<>>, 0),
         delay(500),
         IF env.raster[1] = "throw"
         THEN Throw(RasterErrorMsg, env.rasterMs)
         ELSE Pass(<<RasterMark(0)>>, env.rasterMs),
         IF env.raster[1] = "zero" THEN Throw(CaptureFailedMsg, 0)
         ELSE Pass(<<>>, 0) >>)

\* the catch block of downloadWithFallback: the 'error' event, then the
\* rethrow
BasicCatch(r) ==
  IF r.err = <<>> THEN r
  ELSE [r EXCEPT !.trace = r.trace \o <<Item("event", "error", 0, 0, 0, 0)>>]

\* DownloadDebugger.logDownloadError(format, error)
LogItem == Item("log", "error", 0, 0, 0, 0)

\* the catch block of downloadAsPDF, downloadAsWord and downloadAsPNG: the
\* error is logged, then the 'error' event, then the rethrow
BasicCatchLogged(r) ==
  IF r.err = <<>> THEN r
  ELSE [r EXCEPT !.trace = r.trace \o <<LogItem,
                                         Item("event", "error", 0, 0, 0, 0)>>]

BasicDownloadAsPDF(env) ==
  BasicCatchLogged(
    Run(<< updateProgress("preparing", 10),
           BasicWaitForElement(env.dom, 5000),
           updateProgress("generating", 30),
           BasicCapture(env),
           updateProgress("generating", 60),
           IF env.blob[1] THEN Pass(<<>>, 0) ELSE Throw(EncoderErrorMsg, 0),
           updateProgress("downloading", 90),
           BasicCreateDownloadLink(env.save),
           updateProgress("complete", 100) >>))

BasicDownloadAsWord(name, env) ==
  BasicCatchLogged(
    Run(<< updateProgress("preparing", 10),
           IF name THEN Pass(<<>>, 0)
           ELSE Throw(<<"Resume", "data", "is", "incomplete">>, 0),
           updateProgress("generating", 50),
           updateProgress("downloading", 90),
           IF env.blob[1] THEN Pass(<<>>, 0) ELSE Throw(EncoderErrorMsg, 0),
           BasicCreateDownloadLink(env.save),
           updateProgress("complete", 100) >>))

\* the promise around canvas.toBlob is returned, not awaited: what its
\* callback rejects with passes the catch block by
BasicDownloadAsPNG(env) ==
  LET tried == Run(<< updateProgress("preparing", 10),
                      BasicWaitForElement(env.dom, 5000),
                      updateProgress("generating", 50),
                      BasicCapture(env),
                      updateProgress("downloading", 90) >>)
      callback == Run(<< IF env.blob[1] THEN Pass(<<>>, 0)
                         ELSE Throw(BlobNullMsg, 0),
                         BasicCreateDownloadLink(env.save),
                         updateProgress("complete", 100) >>)
  IN IF tried.err # <<>> THEN BasicCatchLogged(tried)
     ELSE Then(tried, callback)

BasicOperation(f, name, env) ==
  CASE f = "png" -> BasicDownloadAsPNG(env)
    [] f = "pdf" -> BasicDownloadAsPDF(env)
    [] f = "word" -> BasicDownloadAsWord(name, env)

BasicDownloadWithFallback(f, name, canvas, env) ==
  BasicCatch(IF canvas THEN BasicOperation(f, name, env)
             ELSE Throw(NoSupportMsg, 0))

\* the whole of an export call that has no retry loop: r is what it did
Settle(r) ==
  /\ clock' = clock + r.ms
  /\ lateSaves' = lateSaves + r.late
  /\ overlay' = (overlay \/ r.overlay)
  /\ pc' = "done"
  /\ IF r.err = <<>>
     THEN /\ trace' = <<Item("invoke", "", 0, 1, 0, clock)>> \o r.trace
          /\ outcome' = "resolved"
          /\ UNCHANGED <<lastError, thrown, rejection>>
     ELSE /\ trace' = (<<Item("invoke", "", 0, 1, 0, clock)>> \o r.trace)
                        \o <<Item("fail", "", 0, 1, 0, clock + r.ms)>>
          /\ outcome' = "rejected"
          /\ lastError' = r.err
          /\ thrown' = Append(thrown, r.err)
          /\ rejection' = r.err
  /\ UNCHANGED <<svc, fmt, hasName, canvasApi, attempt>>
  /\ UNCHANGED besideExport

BasicCall ==
  /\ svc = "basic" /\ pc = "invoke"
  /\ \E env \in Envs : \E r \in {BasicOperation(fmt, hasName, env)} : Settle(r)

FallbackCall ==
  /\ svc = "fallback" /\ pc = "invoke"
  /\ \E env \in Envs :
       \E r \in {BasicDownloadWithFallback(fmt, hasName, canvasApi, env)} : Settle(r)

----------------------------------------------------------------------------
(* RobustDownloadService, simplified variant *)

\* the selector list ends with main and body, and when nothing visible
\* matches, createResumeElement supplies an element: it always returns one
SimpleDetectResumeElement(dom) == Pass(<<DetectItem(dom)>>, 0)

SimpleEnsureResourcesLoaded ==
  Run(<< updateProgress("loading", 20),
         delay(100),
         updateProgress("loading", 40) >>)

SimplePrepareElementForCapture == delay(50)

\* one html2canvas call; its failure is replaced by a fallback canvas
SimpleCaptureElementAsCanvas(raster, rasterMs) ==
  Run(<< updateProgress("generating", 60),
         Pass(<<RasterMark(0)>>, rasterMs) >>)

SimpleCreateDownloadLink(save) == RobustDownloadMethodsFrom(0, save)

SimpleDownloadAsPNG(env) ==
  Run(<< updateProgress("detecting", 5),
         SimpleDetectResumeElement(env.dom),
         updateProgress("preparing", 10),
         SimpleEnsureResourcesLoaded,
         SimplePrepareElementForCapture,
         updateProgress("generating", 40),
         SimpleCaptureElementAsCanvas(env.raster, env.rasterMs),
         updateProgress("generating", 80),
         Encoded,
         IF env.blob[1] THEN SimpleCreateDownloadLink(env.save)
         ELSE Throw(BlobNullMsg, 0),
         updateProgress("complete", 100) >>)

SimpleDownloadAsPDF(env) ==
  Run(<< updateProgress("detecting", 5),
         SimpleDetectResumeElement(env.dom),
         updateProgress("preparing", 10),
         SimpleEnsureResourcesLoaded,
         SimplePrepareElementForCapture,
         updateProgress("generating", 30),
         SimpleCaptureElementAsCanvas(env.raster, env.rasterMs),
         updateProgress("generating", 60),
         IF env.blob[1] THEN Pass(<<>>, 0) ELSE Throw(EncoderErrorMsg, 0),
         updateProgress("downloading", 90),
         SimpleCreateDownloadLink(env.save),
         updateProgress("complete", 100) >>)

SimpleDownloadAsWord(env) ==
  Run(<< updateProgress("generating", 50),
         updateProgress("downloading", 90),
         Encoded,
         IF env.blob[1] THEN Pass(<<>>, 0) ELSE Throw(EncoderErrorMsg, 0),
         SimpleCreateDownloadLink(env.save),
         updateProgress("complete", 100) >>)

SimpleOperation(f, env) ==
  CASE f = "png" -> SimpleDownloadAsPNG(env)
    [] f = "pdf" -> SimpleDownloadAsPDF(env)
    [] f = "word" -> SimpleDownloadAsWord(env)

\* executeWithRetry of the simplified variant: one call, the error rethrown
SimpleCall ==
  /\ svc = "simple" /\ pc = "invoke"
  /\ \E env \in Envs : \E r \in {SimpleOperation(fmt, env)} : Settle(r)

----------------------------------------------------------------------------
(* The Word document of downloadAsWord *)

\* longest education list handed to downloadAsWord
MaxRecords == 2

SeqsUpTo(S, n) == UNION { [1..k -> S] : k \in 0..n }

EducationRecords ==
  { [degree |-> "BSc", institution |-> "MIT", year |-> "2019"],
    [degree |-> "MSc", institution |-> "ETH", year |-> "2021"] }

ExperienceRecords ==
  { [role |-> "Engineer", company |-> "Acme", duration |-> "2019-2021",
     achievements |-> <<"shipped", "mentored">>],
    [role |-> "Intern", company |-> "Initech", duration |-> "2018",
     achievements |-> <<>>] }

CertificationRecord == [name |-> "CKA", issuer |-> "CNCF", year |-> "2022"]

ResumeDatas ==
  { [personalInfo |-> [fullName |-> n, email |-> "a@b.c", phone |-> "",
                       linkedIn |-> l, github |-> "", objective |-> o],
     skills |-> s, experience |-> x, education |-> e, certifications |-> c] :
      n \in {"", "Ann"}, l \in {"", "in/ann"}, o \in {"", "Build things"},
      s \in {<<>>, <<"TLA+", "Go">>},
      x \in SeqsUpTo(ExperienceRecords, 1),
      e \in SeqsUpTo(EducationRecords, MaxRecords),
      c \in {<<>>, <<CertificationRecord>>} }

\* a Paragraph: its heading level ("" for none) and the text of its runs
Paragraph(heading, text) == [heading |-> heading, text |-> text]

EmptyParagraph == Paragraph("", <<>>)

\* [a, b].filter(Boolean).join(sep)
RECURSIVE FilterJoin(_, _)
FilterJoin(xs, sep) ==
  IF xs = <<>> THEN <<>>
  ELSE LET rest == FilterJoin(Tail(xs), sep)
       IN IF Head(xs) = "" THEN rest
          ELSE IF rest = <<>> THEN <<Head(xs)>>
          ELSE <<Head(xs), sep>> \o rest

\* the header of the document: name, contact line, optional line of links
WordHeader(info, name) ==
  << Paragraph("HEADING_1", <<name>>),
     Paragraph("", FilterJoin(<<info.email, info.phone>>, "|")) >>
  \o (IF info.linkedIn # "" \/ info.github # ""
      THEN << Paragraph("", FilterJoin(<<info.linkedIn, info.github>>, "|")) >>
      ELSE <<>>)

\* ...(present ? [space, heading, ...body] : [])
WordSection(present, title, body) ==
  IF present
  THEN << EmptyParagraph, Paragraph("HEADING_2", <<title>>) >> \o body
  ELSE <<>>

ExperienceParagraphs(exp) ==
  << Paragraph("", <<exp.role, "-", exp.company>>),
     Paragraph("", <<exp.duration>>) >>
  \o [i \in DOMAIN exp.achievements |->
        Paragraph("", <<"*", exp.achievements[i]>>)]
  \o << EmptyParagraph >>

\* data.experience.flatMap(exp => [...])
RECURSIVE ExperienceFlatMap(_)
ExperienceFlatMap(xs) ==
  IF xs = <<>> THEN <<>>
  ELSE ExperienceParagraphs(Head(xs)) \o ExperienceFlatMap(Tail(xs))

EducationParagraph(edu) ==
  Paragraph("", <<edu.degree, "-", edu.institution, "(", edu.year, ")">>)

CertificationParagraph(cert) ==
  Paragraph("", <<cert.name, "-", cert.issuer, "(", cert.year, ")">>)

\* children of the Document of DownloadService.downloadAsWord and of the
\* retrying RobustDownloadService.downloadAsWord, which build the same one
FullWordDocument(data) ==
  WordHeader(data.personalInfo, data.personalInfo.fullName)
  \o WordSection(data.personalInfo.objective # "", "OBJECTIVE",
                 << Paragraph("", <<data.personalInfo.objective>>) >>)
  \o WordSection(Len(data.experience) > 0, "PROFESSIONAL EXPERIENCE",
                 ExperienceFlatMap(data.experience))
  \o WordSection(Len(data.skills) > 0, "SKILLS",
                 << Paragraph("", FilterJoin(data.skills, "*")) >>)
  \o WordSection(Len(data.education) > 0, "EDUCATION",
                 [i \in DOMAIN data.education |->
                    EducationParagraph(data.education[i])])
  \o WordSection(Len(data.certifications) > 0, "CERTIFICATIONS",
                 [i \in DOMAIN data.certifications |->
                    CertificationParagraph(data.certifications[i])])

BasicWordDocument(data) == FullWordDocument(data)

RobustWordDocument(data) == FullWordDocument(data)

\* the simplified variant: name or 'Resume', contact line or a placeholder,
\* and one fixed section
SimpleWordDocument(data) ==
  LET contact == FilterJoin(<<data.personalInfo.email, data.personalInfo.phone>>, "|")
  IN << Paragraph("HEADING_1",
                  << IF data.personalInfo.fullName # ""
                     THEN data.personalInfo.fullName ELSE "Resume" >>),
        Paragraph("", IF contact # <<>> THEN contact
                      ELSE <<"Contact information">>),
        EmptyParagraph,
        Paragraph("HEADING_2", <<"RESUME CONTENT">>),
        Paragraph("", <<"This is your resume content.">>) >>

WordDocument(service, data) ==
  CASE service = "basic" -> BasicWordDocument(data)
    [] service = "robust" -> RobustWordDocument(data)
    [] service = "simple" -> SimpleWordDocument(data)

\* if (!resumeData.personalInfo.fullName) throw: the simplified variant has
\* no such check
WordValidates(service, data) ==
  service = "simple" \/ data.personalInfo.fullName # ""

\* new Document({...}) in downloadAsWord
BuildWordDocument ==
  /\ pc = "word" /\ WordValidates(svc, resumeData)
  /\ document' = WordDocument(svc, resumeData)
  /\ pc' = "built"
  /\ UNCHANGED <<svc, fmt, hasName, canvasApi, attempt, clock, trace,
                 lastError, thrown, outcome, rejection, lateSaves, overlay,
                 resumeData>>
  /\ UNCHANGED besideWord

\* the throw of the validation
RefuseWordDocument ==
  /\ pc = "word" /\ ~WordValidates(svc, resumeData)
  /\ pc' = "done"
  /\ outcome' = "rejected"
  /\ rejection' = (IF svc = "basic" THEN <<"Resume", "data", "is", "incomplete">>
                   ELSE MissingNameMsg)
  /\ UNCHANGED <<svc, fmt, hasName, canvasApi, attempt, clock, trace,
                 lastError, thrown, lateSaves, overlay, wordVars>>
  /\ UNCHANGED besideWord

----------------------------------------------------------------------------
(* sanitizeFilename *)

\* longest string handed to sanitizeFilename
MaxLen == 4

\* a lower-case letter, an upper-case letter, a digit, the three other
\* characters the pattern lets through, and one it does not
Chars == {"a", "Z", "7", ".", "-", "_", "/"}

Filenames == SeqsUpTo(Chars, MaxLen)

IsFilenameCharLoose(c) == c \in Chars

\* [a-z0-9.\-_] under the i flag
IsFilenameChar(c) == c \in {"a", "Z", "7", ".", "-", "_"}

\* .replace(/[^a-z0-9.\-_]/gi, '_')
ReplaceOthers(str) ==
  [i \in DOMAIN str |-> IF IsFilenameChar(str[i]) THEN str[i] ELSE "_"]

\* .replace(/_{2,}/g, '_')
RECURSIVE CollapseUnderscores(_)
CollapseUnderscores(str) ==
  IF Len(str) < 2 THEN str
  ELSE IF str[1] = "_" /\ str[2] = "_" THEN CollapseUnderscores(Tail(str))
  ELSE <<str[1]>> \o CollapseUnderscores(Tail(str))

RECURSIVE StripLeading(_)
StripLeading(str) ==
  IF str # <<>> /\ Head(str) = "_" THEN StripLeading(Tail(str)) ELSE str

RECURSIVE StripTrailing(_)
StripTrailing(str) ==
  IF str # <<>> /\ str[Len(str)] = "_"
  THEN StripTrailing(SubSeq(str, 1, Len(str) - 1)) ELSE str

\* .replace(/^_+|_+$/g, '')
StripUnderscores(str) == StripTrailing(StripLeading(str))

sanitizeFilenameStripFirst(str) ==
  CollapseUnderscores(ReplaceOthers(StripUnderscores(str)))

sanitizeFilename(str) ==
  StripUnderscores(CollapseUnderscores(ReplaceOthers(str)))

\* const safeFileName = this.sanitizeFilename(fileName)
Sanitize ==
  /\ pc = "sanitize"
  /\ safeFileName' = sanitizeFilename(filename)
  /\ pc' = "resanitize"
  /\ UNCHANGED <<svc, fmt, hasName, canvasApi, attempt, clock, trace,
                 lastError, thrown, outcome, rejection, lateSaves, overlay>>
  /\ UNCHANGED <<filename, resanitized>>
  /\ UNCHANGED besideName

\* sanitizeFilename applied to a name that went through it before, as
\* createDownloadLink does with the name downloadAsPNG has built
Resanitize ==
  /\ pc = "resanitize"
  /\ resanitized' = sanitizeFilename(safeFileName)
  /\ pc' = "sanitized"
  /\ UNCHANGED <<svc, fmt, hasName, canvasApi, attempt, clock, trace,
                 lastError, thrown, outcome, rejection, lateSaves, overlay>>
  /\ UNCHANGED <<filename, safeFileName>>
  /\ UNCHANGED besideName

----------------------------------------------------------------------------
(* ExportOptions: handleDownload, Cancel, Download All, the watchdog *)

\* downloads the user starts one by one
MaxClicks == 2

\* exports the user cancels
MaxCancels == 1

\* periods of 30 s in which nothing else happens
MaxIdle == 1

NoTimer == [op |-> 0, idx |-> 0]

NoProgress == [op |-> 0, idx |-> 0, stage |-> "null", forced |-> FALSE]

NoFinish ==
  [failed |-> FALSE, fallback |-> "null", isDownloading |-> "null",
   progress |-> NoProgress]

\* what an export started from ExportOptions meets: everything works, or the
\* encoder delivers nothing
UiEnvs == { GoodEnv, [GoodEnv EXCEPT !.blob = <<FALSE, FALSE, FALSE>>] }

\* a burst of progress events that ends, added to those of the task so far
Close(done, cur) == IF cur = <<>> THEN done ELSE Append(done, cur)

\* the stages of the progress events of a trace, in bursts: the events of a
\* burst are emitted in one task of the event loop, a burst ends where the
\* export awaits.  The bursts are grouped into steps, a step ends where the
\* export awaits the rasterizer or an asynchronous encoder: the timers of 100
\* and 50 ms the export awaits between the bursts of a step end before
\* anything else happens
RECURSIVE Segments(_, _, _)
Segments(tr, cur, done) ==
  IF tr = <<>> THEN << Close(done, cur) >>
  ELSE IF Head(tr).k = "event"
       THEN Segments(Tail(tr), Append(cur, Head(tr).stage), done)
       ELSE IF Head(tr).k = "wait"
            THEN Segments(Tail(tr), <<>>, Close(done, cur))
            ELSE IF Head(tr).k \in {"raster", "encode"}
                 THEN << Close(done, cur) >> \o Segments(Tail(tr), <<>>, <<>>)
                 ELSE Segments(Tail(tr), cur, done)

\* the steps of an export of the service ExportOptions imports, the
\* simplified RobustDownloadService; the export settles in the last task of
\* the last step, which may be a task without events
OpSteps(f, env) ==
  LET segs == Segments(SimpleOperation(f, env).trace, <<>>, <<>>)
      n == Len(segs)
  IN SelectSeq(SubSeq(segs, 1, n - 1), LAMBDA g : g # <<>>)
       \o << IF segs[n] = <<>> THEN << <<>> >> ELSE segs[n] >>

OpRejects(f, env) == SimpleOperation(f, env).err # <<>>

clearTimeout(ts, id) ==
  SelectSeq(ts, LAMBDA t : ~(t.op = id.op /\ t.idx = id.idx))

\* a render after setProgressTimeout: when the state has changed, the cleanup
\* of the effect on [progressTimeout] clears the timer of the render before
EffectCleanup(ts, old, new) == IF new # old THEN clearTimeout(ts, old) ELSE ts

\* const formats = ['pdf', 'word', 'png']
BatchFormats == <<"pdf", "word", "png">>

\* the timers the progress callback arms for a burst of events
Armed(o, stages, base) ==
  [k \in DOMAIN stages |-> [op |-> o, idx |-> base + k, stage |-> stages[k]]]

\* progressTimeout at the end of a task of export o that emits the events
\* stages: the timer of the last event, or null when the task ends with the
\* finally of handleDownload and the closure of the handler holds a timer,
\* stale
Last(o, stale, stages, st, settles) ==
  IF settles /\ stale # NoTimer THEN NoTimer
  ELSE IF stages # <<>> THEN [op |-> o, idx |-> st.idx + Len(stages)]
  ELSE st.progressTimeout

\* the timers and progressTimeout after a task in which the progress callback
\* has run for a burst of events of export o, and the component has rendered.
\* Each call clears the timer its closure holds and arms one; a render that
\* follows each setProgressTimeout lets the effect cleanup clear the timer
\* armed before, while with automatic batching only the last value set is
\* ever rendered
AfterBurst(o, stale, stages, st, settles) ==
  LET last == Last(o, stale, stages, st, settles)
      armed == Armed(o, stages, st.idx)
      kept == clearTimeout(st.timers, stale)
      top == [op |-> o, idx |-> st.idx + Len(stages)]
  IN [timers |->
        IF stages = <<>> THEN EffectCleanup(kept, st.progressTimeout, last)
        ELSE IF automaticBatching
             THEN EffectCleanup(kept \o armed, st.progressTimeout, last)
             ELSE EffectCleanup(clearTimeout(kept, st.progressTimeout)
                                  \o <<armed[Len(armed)]>>, top, last),
      progressTimeout |-> last,
      idx |-> st.idx + Len(stages)]

RECURSIVE AfterBursts(_, _, _, _, _)
AfterBursts(o, stale, bursts, st, settles) ==
  IF bursts = <<>> THEN st
  ELSE AfterBursts(o, stale, Tail(bursts),
                   AfterBurst(o, stale, Head(bursts), st,
                              settles /\ Len(bursts) = 1),
                   settles)

\* 'await handleDownload(format); successCount++': handleDownload catches
\* every error of the export and of its own checks and does not rethrow, so
\* the await returns, the count goes up, and the catch of the loop, with its
\* failureCount++, is never entered
Returned(batch, count) == IF batch THEN count + 1 ELSE count

\* the toast after the loop
FinalToast(count) ==
  IF count = Len(BatchFormats) THEN "All Downloads Complete"
  ELSE IF count > 0 THEN "Partial Download Success"
  ELSE "All Downloads Failed"

\* handleDownload up to the first await of the rasterizer or an encoder: the
\* first step of the export is under way when the click has been handled.
\* stale is progressTimeout as the closure of the handler holds it, fallback
\* is showManualFallback as the caller leaves it.  When the resume element is
\* not in the page the handler throws before it calls the service, and its
\* catch and finally run at once.
HandleDownloadStart(f, batch, stale, fallback) ==
  \E env \in UiEnvs, present \in BOOLEAN :
    LET cleared == failedDownloads \ {f}
        o == Len(ops) + 1
        steps == OpSteps(f, env)
        stages == steps[1][Len(steps[1])]
        st == AfterBursts(o, stale, steps[1],
                          [timers |-> timers, progressTimeout |-> progressTimeout,
                           idx |-> 0], FALSE)
        started == [format |-> f, steps |-> steps,
                    rejects |-> OpRejects(f, env), step |-> 1, idx |-> st.idx,
                    status |-> "running", stale |-> stale, batch |-> batch,
                    cancelled |-> FALSE,
                    alone |-> \A j \in DOMAIN ops :
                                ops[j].status = "running" => ops[j].cancelled,
                    startClear |-> (f \notin cleared),
                    present |-> present,
                    atFinish |-> NoFinish]
    IN IF present
       THEN /\ isDownloading' = f
            /\ downloadProgress' = [op |-> o, idx |-> st.idx,
                                    stage |-> stages[Len(stages)],
                                    forced |-> FALSE]
            /\ failedDownloads' = cleared
            /\ showManualFallback' = fallback
            /\ timers' = st.timers
            /\ progressTimeout' = st.progressTimeout
            /\ ops' = Append(ops, started)
            /\ batchPc' = (IF batch THEN "run" ELSE batchPc)
            /\ UNCHANGED batchTally
       ELSE /\ isDownloading' = "null"
            /\ downloadProgress' = NoProgress
            /\ failedDownloads' = cleared \cup {f}
            /\ showManualFallback' = f
            /\ LET new == IF stale # NoTimer THEN NoTimer ELSE progressTimeout
               IN /\ timers' = EffectCleanup(clearTimeout(timers, stale),
                                             progressTimeout, new)
                  /\ progressTimeout' = new
            /\ ops' = Append(ops,
                 [started EXCEPT !.steps = <<>>, !.rejects = TRUE,
                                 !.step = 0, !.idx = 0,
                                 !.status = "rejected",
                                 !.atFinish = [failed |-> TRUE, fallback |-> f,
                                               isDownloading |-> "null",
                                               progress |-> NoProgress]])
            /\ batchPc' = (IF batch THEN "delay" ELSE batchPc)
            /\ successCount' = Returned(batch, successCount)
            /\ UNCHANGED <<failureCount, batchToast>>

\* onClick of a format's Download button and of its Retry Download button,
\* both offered only while isDownloading is null
ClickDownload ==
  /\ isDownloading = "null" /\ clicks < MaxClicks
  /\ \E f \in Formats :
       HandleDownloadStart(f, FALSE, progressTimeout, showManualFallback)
  /\ clicks' = clicks + 1
  /\ UNCHANGED <<batchIdx, batchStale, idle, automaticBatching>>
  /\ UNCHANGED besideUi

\* onRetryAutomated of the manual-fallback panel
RetryAutomated ==
  /\ showManualFallback # "null" /\ clicks < MaxClicks
  /\ HandleDownloadStart(showManualFallback, FALSE, progressTimeout, "null")
  /\ clicks' = clicks + 1
  /\ UNCHANGED <<batchIdx, batchStale, idle, automaticBatching>>
  /\ UNCHANGED besideUi

\* the timers, progressTimeout and the events of export o so far
Now(o) ==
  [timers |-> timers, progressTimeout |-> progressTimeout, idx |-> ops[o].idx]

\* a step in which export o emits its next bursts of progress events and
\* does not settle: the progress callback given to the service, once per event
ProgressCallback ==
  /\ \E o \in DOMAIN ops :
       /\ ops[o].status = "running" /\ ops[o].step + 1 < Len(ops[o].steps)
       /\ LET bursts == ops[o].steps[ops[o].step + 1]
              stages == bursts[Len(bursts)]
              st == AfterBursts(o, ops[o].stale, bursts, Now(o), FALSE)
          IN /\ downloadProgress' = [op |-> o, idx |-> st.idx,
                                     stage |-> stages[Len(stages)],
                                     forced |-> FALSE]
             /\ timers' = st.timers
             /\ progressTimeout' = st.progressTimeout
             /\ ops' = [ops EXCEPT ![o].idx = st.idx, ![o].step = @ + 1]
  /\ UNCHANGED <<isDownloading, failedDownloads, showManualFallback, batchPc,
                 batchIdx, batchStale, clicks, idle, automaticBatching>>
  /\ UNCHANGED batchTally
  /\ UNCHANGED besideUi

\* the step in which export o emits its last events and settles: the rest of
\* the try or the catch of handleDownload, then its finally
HandleDownloadSettle ==
  /\ \E o \in DOMAIN ops :
       /\ ops[o].status = "running" /\ ops[o].step + 1 = Len(ops[o].steps)
       /\ LET f == ops[o].format
              st == AfterBursts(o, ops[o].stale, ops[o].steps[ops[o].step + 1],
                                Now(o), TRUE)
              failed == IF ops[o].rejects THEN failedDownloads \cup {f}
                        ELSE failedDownloads
              panel == IF ops[o].rejects THEN f ELSE showManualFallback
          IN /\ failedDownloads' = failed
             /\ showManualFallback' = panel
             /\ isDownloading' = "null"
             /\ downloadProgress' = NoProgress
             /\ timers' = st.timers
             /\ progressTimeout' = st.progressTimeout
             /\ ops' = [ops EXCEPT
                  ![o].idx = st.idx, ![o].step = @ + 1,
                  ![o].status = (IF ops[o].rejects THEN "rejected" ELSE "resolved"),
                  ![o].atFinish = [failed |-> (f \in failed), fallback |-> panel,
                                   isDownloading |-> "null",
                                   progress |-> NoProgress]]
             /\ batchPc' = (IF ops[o].batch THEN "delay" ELSE batchPc)
             /\ successCount' = Returned(ops[o].batch, successCount)
             /\ UNCHANGED <<failureCount, batchToast>>
  /\ UNCHANGED <<batchIdx, batchStale, clicks, idle, automaticBatching>>
  /\ UNCHANGED besideUi

\* onClick of Cancel Download, shown for the format isDownloading names; the
\* exports of that format stay in flight, cancelled marks them
CancelDownload ==
  /\ isDownloading # "null"
  /\ Cardinality({j \in DOMAIN ops : ops[j].cancelled}) < MaxCancels
  /\ isDownloading' = "null"
  /\ downloadProgress' = NoProgress
  /\ timers' = clearTimeout(timers, progressTimeout)
  /\ progressTimeout' = NoTimer
  /\ ops' = [j \in DOMAIN ops |->
               IF ops[j].status = "running" /\ ops[j].format = isDownloading
               THEN [ops[j] EXCEPT !.cancelled = TRUE] ELSE ops[j]]
  /\ UNCHANGED <<failedDownloads, showManualFallback, batchPc, batchIdx,
                 batchStale, clicks, idle, automaticBatching>>
  /\ UNCHANGED batchTally
  /\ UNCHANGED besideUi

BatchResumesUnawaited(at) == at \in {"run", "delay"}

\* the loop of Download All goes on when 'await handleDownload(format)' has
\* returned and the 500 ms of the inter-format delay are over
BatchResumes(at) == at = "delay"

\* onClick of Download All Formats, up to the first await
ClickDownloadAll ==
  /\ isDownloading = "null" /\ batchPc = "idle"
  /\ batchIdx' = 1
  /\ batchStale' = progressTimeout
  /\ HandleDownloadStart(BatchFormats[1], TRUE, progressTimeout, showManualFallback)
  /\ UNCHANGED <<clicks, idle, automaticBatching>>
  /\ UNCHANGED besideUi

\* the next iteration of the loop of Download All, or its end
BatchContinue ==
  /\ batchPc # "idle" /\ batchPc # "done" /\ BatchResumes(batchPc)
  /\ IF batchIdx < Len(BatchFormats)
     THEN /\ batchIdx' = batchIdx + 1
          /\ HandleDownloadStart(BatchFormats[batchIdx + 1], TRUE, batchStale,
                                 showManualFallback)
          /\ UNCHANGED <<batchStale, clicks, idle, automaticBatching>>
     ELSE /\ batchPc' = "done"
          /\ batchToast' = FinalToast(successCount)
          /\ UNCHANGED <<successCount, failureCount>>
          /\ UNCHANGED <<isDownloading, downloadProgress, progressTimeout,
                         failedDownloads, showManualFallback, timers, ops,
                         batchIdx, batchStale, clicks, idle, automaticBatching>>
  /\ UNCHANGED besideUi

\* downloadProgress after the callbacks of the watchdog timers ts have run in
\* the order the timers were armed: each sets the event it was armed for,
\* with stage 'error', unless the stage of that event is complete or error
RECURSIVE WatchdogFires(_, _)
WatchdogFires(ts, progress) ==
  IF ts = <<>> THEN progress
  ELSE WatchdogFires(Tail(ts),
         IF Head(ts).stage # "complete" /\ Head(ts).stage # "error"
         THEN [op |-> Head(ts).op, idx |-> Head(ts).idx, stage |-> "error",
               forced |-> TRUE]
         ELSE progress)

\* 30 s pass in which nothing else happens: every armed timer fires
Elapse ==
  /\ timers # <<>> /\ idle < MaxIdle
  /\ idle' = idle + 1
  /\ downloadProgress' = WatchdogFires(timers, downloadProgress)
  /\ timers' = <<>>
  /\ UNCHANGED <<isDownloading, progressTimeout, failedDownloads,
                 showManualFallback, ops, batchPc, batchIdx, batchStale,
                 clicks, automaticBatching>>
  /\ UNCHANGED batchTally
  /\ UNCHANGED besideUi

\* ExportOptions as mounted
UiMounted ==
  /\ isDownloading = "null"
  /\ downloadProgress = NoProgress
  /\ progressTimeout = NoTimer
  /\ failedDownloads = {}
  /\ showManualFallback = "null"
  /\ timers = <<>>
  /\ idle = 0
  /\ ops = <<>>
  /\ batchPc = "idle"
  /\ batchIdx = 0
  /\ batchStale = NoTimer
  /\ clicks = 0
  /\ successCount = 0
  /\ failureCount = 0
  /\ batchToast = "none"

----------------------------------------------------------------------------

\* no export call, no Word document, no file name and no download of
\* ExportOptions is under way
Parked ==
  /\ svc = "simple"
  /\ fmt = "pdf"
  /\ hasName = TRUE
  /\ canvasApi = TRUE
  /\ attempt = 1
  /\ clock = 0
  /\ trace = <<>>
  /\ lastError = <<>>
  /\ thrown = <<>>
  /\ outcome = "pending"
  /\ rejection = <<>>
  /\ lateSaves = 0
  /\ overlay = FALSE
  /\ resumeData = CHOOSE d \in ResumeDatas : d.personalInfo.fullName # ""
  /\ document = <<>>
  /\ filename = <<>>
  /\ safeFileName = <<>>
  /\ resanitized = <<>>
  /\ UiMounted
  /\ automaticBatching = TRUE

----------------------------------------------------------------------------
(* The waits for the target element *)

\* pending polls of one wait, beyond which a mutation starts no further one
MaxChains == 2

\* the clock of a wait stops here
MaxWaitMs == 16000

BasicWaitTimeout == 5000
ImprovedWaitTimeout == 15000
CheckInterval == 100

Elements == {"absent", "zero", "ready"}

WaitExpiredNever(ms, timeout) == FALSE

\* if (Date.now() - startTime >= timeout)
WaitExpired(ms, timeout) == ms >= timeout

\* checkElement of waitForElementAdvanced: resolve with an element that is
\* visible, in the DOM and has content, else reject when the timeout has
\* passed, else poll again
checkElement(el, ms) ==
  IF el = "ready" THEN "resolve"
  ELSE IF WaitExpired(ms, ImprovedWaitTimeout) THEN "reject"
  ELSE "again"

\* a promise settles once
Settled(now, result) ==
  IF now # "waiting" THEN now
  ELSE CASE result = "resolve" -> "resolved"
         [] result = "reject" -> "rejected"
         [] OTHER -> now

\* what a wait leaves alone
besideWait ==
  <<exportVars, wordVars, nameVars, uiVars, detectVars, gateVars, convertVars,
    hookVars>>

\* DownloadService.waitForElement, up to its return of the promise
WaitForElement ==
  /\ pc = "wait" /\ waiter = "basic" /\ waitPc = "idle"
  /\ IF element # "absent"
     THEN /\ waitPc' = "resolved"
          /\ UNCHANGED <<observing, timer>>
     ELSE /\ waitPc' = "waiting"
          /\ observing' = TRUE
          /\ timer' = TRUE
  /\ UNCHANGED <<waiter, element, elapsed, polls>>
  /\ UNCHANGED besideWait

\* the setTimeout callback of waitForElement
WaitForElementTimeout ==
  /\ pc = "wait" /\ waiter = "basic" /\ timer
  /\ timer' = FALSE
  /\ observing' = FALSE
  /\ elapsed' = BasicWaitTimeout
  /\ waitPc' = Settled(waitPc, "reject")
  /\ UNCHANGED <<waiter, element, polls>>
  /\ UNCHANGED besideWait

\* ImprovedDownloadService.waitForElementAdvanced, up to its return of the
\* promise: the observer, the first checkElement and the cleanup timer
WaitForElementAdvanced ==
  /\ pc = "wait" /\ waiter = "improved" /\ waitPc = "idle"
  /\ observing' = TRUE
  /\ timer' = TRUE
  /\ waitPc' = Settled("waiting", checkElement(element, elapsed))
  /\ polls' = (IF checkElement(element, elapsed) = "again" THEN 1 ELSE 0)
  /\ UNCHANGED <<waiter, element, elapsed>>
  /\ UNCHANGED besideWait

\* checkInterval passes: every pending setTimeout(checkElement, checkInterval)
\* fires
CheckElementPolls ==
  /\ pc = "wait" /\ waiter = "improved" /\ polls > 0
  /\ elapsed < MaxWaitMs
  /\ elapsed' = elapsed + CheckInterval
  /\ waitPc' = Settled(waitPc, checkElement(element, elapsed'))
  /\ polls' = (IF checkElement(element, elapsed') = "again" THEN polls ELSE 0)
  /\ UNCHANGED <<waiter, element, observing, timer>>
  /\ UNCHANGED besideWait

\* the cleanup timer of waitForElementAdvanced
WaitForElementAdvancedCleanup ==
  /\ pc = "wait" /\ waiter = "improved" /\ timer
  /\ WaitExpired(elapsed, ImprovedWaitTimeout)
  /\ timer' = FALSE
  /\ observing' = FALSE
  /\ UNCHANGED <<waiter, element, elapsed, polls, waitPc>>
  /\ UNCHANGED besideWait

\* the page changes the target element, by a mutation of the child list or
\* of attributes, and the connected observer is called back.  The observer
\* of waitForElement resolves with an element that is in the DOM and
\* disconnects; that of waitForElementAdvanced calls checkElement for a
\* mutation of the child list when the element is in the DOM
Mutation ==
  /\ pc = "wait" /\ waitPc # "idle" /\ (observing \/ polls > 0)
  /\ \E el \in Elements \ {element}, childList \in BOOLEAN :
       /\ element' = el
       /\ IF ~observing
          THEN UNCHANGED <<observing, polls, waitPc>>
          ELSE IF waiter = "basic"
          THEN /\ waitPc' = Settled(waitPc, IF el # "absent" THEN "resolve" ELSE "again")
               /\ observing' = (el = "absent")
               /\ UNCHANGED polls
          ELSE IF childList /\ el # "absent" /\ polls < MaxChains
          THEN /\ waitPc' = Settled(waitPc, checkElement(el, elapsed))
               /\ polls' = (IF checkElement(el, elapsed) = "again"
                            THEN polls + 1 ELSE polls)
               /\ UNCHANGED observing
          ELSE UNCHANGED <<observing, polls, waitPc>>
  /\ UNCHANGED <<waiter, elapsed, timer>>
  /\ UNCHANGED besideWait

\* no wait is under way
WaitIdle ==
  /\ waiter = "none"
  /\ element = "ready"
  /\ elapsed = 0
  /\ polls = 0
  /\ observing = FALSE
  /\ timer = FALSE
  /\ waitPc = "idle"

----------------------------------------------------------------------------
(* RobustDownloadService.detectResumeElement *)

\* elements the selectors match in one page
MaxMatches == 2

\* the entries of elementDetectionStrategies, by priority
RobustStrategies == 7

\* if (bestMatch && bestMatch.score >= 80)
RobustGoodScore == 80

\* elements of a page, by what scoreElement reads of them: a hidden element,
\* a navigation bar, a short card, the whole page and the resume preview
Catalogue ==
  { [name |-> "hidden", attached |-> TRUE, width |-> 0, height |-> 0,
     display |-> "block", text |-> 600, keywords |-> 4, children |-> 5,
     resume |-> TRUE, preview |-> TRUE, template |-> FALSE, chrome |-> FALSE],
    [name |-> "nav", attached |-> TRUE, width |-> 200, height |-> 60,
     display |-> "flex", text |-> 40, keywords |-> 1, children |-> 2,
     resume |-> FALSE, preview |-> FALSE, template |-> FALSE, chrome |-> TRUE],
    [name |-> "card", attached |-> TRUE, width |-> 300, height |-> 400,
     display |-> "block", text |-> 120, keywords |-> 0, children |-> 1,
     resume |-> FALSE, preview |-> FALSE, template |-> FALSE, chrome |-> FALSE],
    [name |-> "page", attached |-> TRUE, width |-> 900, height |-> 900,
     display |-> "block", text |-> 600, keywords |-> 6, children |-> 5,
     resume |-> TRUE, preview |-> FALSE, template |-> FALSE, chrome |-> FALSE],
    [name |-> "preview", attached |-> TRUE, width |-> 600, height |-> 800,
     display |-> "block", text |-> 600, keywords |-> 4, children |-> 3,
     resume |-> TRUE, preview |-> TRUE, template |-> FALSE, chrome |-> FALSE] }

Bonus(cond, points) == IF cond THEN points ELSE 0

\* scoreElement
scoreElement(e) ==
  IF ~e.attached THEN 0
  ELSE IF e.width = 0 \/ e.height = 0 THEN 0
  ELSE IF e.display = "none" THEN 0
  ELSE LET score ==
             Bonus(e.height >= 400, 30) + Bonus(e.width >= 300, 20)
             + Bonus(e.height >= 800, 10)
             + Bonus(e.text > 100, 20) + Bonus(e.text > 500, 10)
             + 8 * e.keywords
             + Bonus(e.children >= 3, 15) + Bonus(e.children >= 5, 10)
             + Bonus(e.resume, 25) + Bonus(e.preview, 15)
             + Bonus(e.template, 10)
             - Bonus(e.chrome, 20)
       IN IF score < 0 THEN 0 ELSE score

\* let bestMatch = null
NoMatch == [element |-> "null", strategy |-> 0, score |-> 0]

\* document.querySelectorAll(strategy.selector), in document order
querySelectorAll(doc, s) ==
  LET hits == SelectSeq(doc, LAMBDA h : h.strategy = s)
  IN [i \in 1..Len(hits) |-> hits[i].element]

\* for (const element of elements): a candidate of positive score replaces
\* bestMatch when there is none or when its score is strictly higher
RECURSIVE ScoreElements(_, _, _)
ScoreElements(elements, s, best) ==
  IF elements = <<>> THEN best
  ELSE LET score == scoreElement(Head(elements))
       IN ScoreElements(Tail(elements), s,
            IF score > 0 /\ (best = NoMatch \/ score > best.score)
            THEN [element |-> Head(elements).name, strategy |-> s,
                  score |-> score]
            ELSE best)

\* what detectResumeElement leaves alone
besideDetect ==
  <<exportVars, wordVars, nameVars, uiVars, waitVars, gateVars, convertVars,
    hookVars>>

\* one round of the loop over the strategies, sorted by priority, with the
\* return of a match that scores RobustGoodScore or more
DetectStrategy ==
  /\ detectPc = "scan" /\ strategy <= RobustStrategies
  /\ \E best \in {ScoreElements(querySelectorAll(page, strategy), strategy,
                                bestMatch)} :
       /\ bestMatch' = best
       /\ IF best # NoMatch /\ best.score >= RobustGoodScore
          THEN detectPc' = "returned" /\ UNCHANGED strategy
          ELSE strategy' = strategy + 1 /\ UNCHANGED detectPc
  /\ UNCHANGED page
  /\ UNCHANGED besideDetect

\* after the loop: the best available match, or the error
DetectBestAvailable ==
  /\ detectPc = "scan" /\ strategy > RobustStrategies
  /\ detectPc' = IF bestMatch # NoMatch THEN "returned" ELSE "threw"
  /\ UNCHANGED <<page, strategy, bestMatch>>
  /\ UNCHANGED besideDetect

\* detectResumeElement has not been called
DetectIdle ==
  /\ page = <<>>
  /\ strategy = 1
  /\ bestMatch = NoMatch
  /\ detectPc = "idle"

DetectNext == DetectStrategy \/ DetectBestAvailable

----------------------------------------------------------------------------
(* RobustDownloadService.ensureResourcesLoaded *)

\* img elements under the target element
MaxImages == 2

\* setTimeout(..., 5000) of an image that is not complete
ImageTimeoutMs == 5000

\* await this.delay(1500)
LazyContentMs == 1500

\* the promise of an image is settled
ImageSettled(st) == st \in {"complete", "loaded", "errored", "timedout"}

AfterImageTimeoutStillLoading == "loading"

\* the timeout callback resolves the promise of the image
AfterImageTimeout == "timedout"

\* what ensureResourcesLoaded leaves alone
besideGate ==
  <<exportVars, wordVars, nameVars, uiVars, waitVars, detectVars, convertVars,
    hookVars>>

\* from the entry to await Promise.all(imagePromises): an image that is
\* complete gives a resolved promise, another one a timer and two handlers
EnsureResourcesLoaded ==
  /\ gatePc = "start"
  /\ gateProgress' = 15
  /\ imageTimers' = [i \in DOMAIN images |-> images[i] = "loading"]
  /\ gatePc' = "images"
  /\ UNCHANGED <<images, fonts, gateMs>>
  /\ UNCHANGED besideGate

\* img.onload
ImageOnLoad(i) ==
  /\ gatePc = "images" /\ images[i] = "loading" /\ imageTimers[i]
  /\ images' = [images EXCEPT ![i] = "loaded"]
  /\ imageTimers' = [imageTimers EXCEPT ![i] = FALSE]
  /\ UNCHANGED <<fonts, gatePc, gateProgress, gateMs>>
  /\ UNCHANGED besideGate

\* img.onerror
ImageOnError(i) ==
  /\ gatePc = "images" /\ images[i] = "loading" /\ imageTimers[i]
  /\ images' = [images EXCEPT ![i] = "errored"]
  /\ imageTimers' = [imageTimers EXCEPT ![i] = FALSE]
  /\ UNCHANGED <<fonts, gatePc, gateProgress, gateMs>>
  /\ UNCHANGED besideGate

\* the timer of an image fires
ImageTimeout(i) ==
  /\ gatePc = "images" /\ imageTimers[i]
  /\ images' = [images EXCEPT ![i] = AfterImageTimeout]
  /\ imageTimers' = [imageTimers EXCEPT ![i] = FALSE]
  /\ gateMs' = ImageTimeoutMs
  /\ UNCHANGED <<fonts, gatePc, gateProgress>>
  /\ UNCHANGED besideGate

\* await Promise.all(imagePromises) returns
ImagesSettled ==
  /\ gatePc = "images"
  /\ \A i \in DOMAIN images : ImageSettled(images[i])
  /\ gateProgress' = 25
  /\ gatePc' = "fonts"
  /\ UNCHANGED <<images, imageTimers, fonts, gateMs>>
  /\ UNCHANGED besideGate

\* document.fonts.ready settles
FontsSettle ==
  /\ fonts = "loading"
  /\ fonts' \in {"ready", "rejected"}
  /\ UNCHANGED <<images, imageTimers, gatePc, gateProgress, gateMs>>
  /\ UNCHANGED besideGate

\* the await of document.fonts.ready stands in a try whose catch only warns
FontsRejectionCaught == TRUE

\* if ('fonts' in document) try { await document.fonts.ready } catch { }
AwaitFonts ==
  /\ gatePc = "fonts" /\ fonts # "loading"
  /\ gatePc' = IF fonts = "rejected" /\ ~FontsRejectionCaught
               THEN "rejected" ELSE "delay"
  /\ UNCHANGED <<images, imageTimers, fonts, gateProgress, gateMs>>
  /\ UNCHANGED besideGate

\* await this.delay(1500) and the last progress event
LazyContentDelay ==
  /\ gatePc = "delay"
  /\ gateMs' = gateMs + LazyContentMs
  /\ gateProgress' = 35
  /\ gatePc' = "done"
  /\ UNCHANGED <<images, imageTimers, fonts>>
  /\ UNCHANGED besideGate

\* ensureResourcesLoaded has not been called
GateIdle ==
  /\ images = <<>>
  /\ imageTimers = <<>>
  /\ fonts = "absent"
  /\ gatePc = "idle"
  /\ gateProgress = 0
  /\ gateMs = 0

GateNext ==
  \/ EnsureResourcesLoaded
  \/ \E i \in DOMAIN images : ImageOnLoad(i)
  \/ \E i \in DOMAIN images : ImageOnError(i)
  \/ \E i \in DOMAIN images : ImageTimeout(i)
  \/ ImagesSettled
  \/ FontsSettle
  \/ AwaitFonts
  \/ LazyContentDelay

----------------------------------------------------------------------------
(* ImprovedDownloadService.convertCanvasToDownload *)

\* formats, by MIME type
ImageFormats == <<"image/png", "image/jpeg", "image/webp">>

\* what happens to one format: toBlob throws, toBlob delivers null,
\* createDownloadLink throws, or createDownloadLink returns
FormatFates == {"throws", "noblob", "savefails", "saved"}

\* setTimeout(tryFormat, 100)
NextFormatMs == 100

FormatsExhaustedEarly(index) == index >= Len(ImageFormats) - 1

\* if (formatIndex >= formats.length)
FormatsExhausted(index) == index >= Len(ImageFormats)

\* what convertCanvasToDownload leaves alone
besideConvert ==
  <<exportVars, wordVars, nameVars, uiVars, waitVars, detectVars, gateVars,
    hookVars>>

\* tryFormat, up to the return of canvas.toBlob or its throw
TryFormat ==
  /\ convertPc = "try"
  /\ IF FormatsExhausted(formatIndex)
     THEN /\ settlements' = Append(settlements, "reject")
          /\ convertPc' = "end"
          /\ UNCHANGED <<encodings, formatIndex>>
     ELSE /\ encodings' = Append(encodings, ImageFormats[formatIndex + 1])
          /\ IF fates[formatIndex + 1] = "throws"
             THEN formatIndex' = formatIndex + 1 /\ convertPc' = "timer"
             ELSE convertPc' = "blob" /\ UNCHANGED formatIndex
          /\ UNCHANGED settlements
  /\ UNCHANGED <<fates, convertMs>>
  /\ UNCHANGED besideConvert

\* the callback of canvas.toBlob
ToBlobCallback ==
  /\ convertPc = "blob"
  /\ IF fates[formatIndex + 1] = "saved"
     THEN /\ settlements' = Append(settlements, "resolve")
          /\ convertPc' = "end"
          /\ UNCHANGED formatIndex
     ELSE /\ formatIndex' = formatIndex + 1
          /\ convertPc' = "timer"
          /\ UNCHANGED settlements
  /\ UNCHANGED <<fates, encodings, convertMs>>
  /\ UNCHANGED besideConvert

\* the timer of setTimeout(tryFormat, 100) fires
TryFormatTimer ==
  /\ convertPc = "timer"
  /\ convertMs' = convertMs + NextFormatMs
  /\ convertPc' = "try"
  /\ UNCHANGED <<fates, formatIndex, settlements, encodings>>
  /\ UNCHANGED besideConvert

\* convertCanvasToDownload has not been called
ConvertIdle ==
  /\ fates = <<>>
  /\ formatIndex = 0
  /\ convertPc = "idle"
  /\ settlements = <<>>
  /\ encodings = <<>>
  /\ convertMs = 0

ConvertNext == TryFormat \/ ToBlobCallback \/ TryFormatTimer

----------------------------------------------------------------------------
(* usePreviewReadiness *)

\* changes of the preview element in the page during one run
MaxDomChanges == 2

\* calls of forceCheck by the user during one run
MaxForceChecks == 1

\* defaultConfig
DefaultMaxRetries == 5
DefaultRetryDelay == 1000
DefaultTimeout == 15000

defaultConfig ==
  [maxRetries |-> DefaultMaxRetries, retryDelay |-> DefaultRetryDelay,
   timeout |-> DefaultTimeout]

\* finalConfig = { ...defaultConfig, ...config }: the defaults, and a
\* caller's config with a timeout of two retry delays
HookConfigs ==
  { defaultConfig,
    [defaultConfig EXCEPT !.timeout = 2 * DefaultRetryDelay] }

\* the preview element: not in the page, hidden, without content, or a
\* visible element with the content of a resume
Previews == {"absent", "hidden", "empty", "ready"}

\* checkElementReadiness, and the lookup of the element before it
checkElementReadiness(el) ==
  CASE el = "absent" -> [ready |-> FALSE, reason |-> "not found on page"]
    [] el = "hidden" -> [ready |-> FALSE, reason |-> "Element is hidden"]
    [] el = "empty" -> [ready |-> FALSE, reason |-> "Element has no content"]
    [] el = "ready" -> [ready |-> TRUE, reason |-> "null"]

\* the state after checkPreviewReadiness has run on element el
Checked(st, el) ==
  LET readinessCheck == checkElementReadiness(el)
  IN IF readinessCheck.ready
     THEN [st EXCEPT !.isChecking = FALSE, !.isReady = TRUE,
                     !.error = "null", !.retryCount = 0]
     ELSE [st EXCEPT !.isChecking = FALSE, !.isReady = FALSE,
                     !.error = readinessCheck.reason]

\* the effect of the periodic check keeps an interval only while the state
\* is neither ready nor checking
PeriodicCheck(st) == ~(st.isReady \/ st.isChecking)

\* while (retryCount < maxRetries && (Date.now() - startTime) < timeout)
LoopGoesOn(n, ms, cfg) == n < cfg.maxRetries /\ ms < cfg.timeout

\* what the hook leaves alone
besideHook ==
  <<exportVars, wordVars, nameVars, uiVars, waitVars, detectVars, gateVars,
    convertVars>>

\* the mount effect: checkPreviewReadiness()
HookMount ==
  /\ hookPc = "mounting"
  /\ hookPc' = "mounted"
  /\ state' = Checked(state, preview)
  /\ interval' = PeriodicCheck(state')
  /\ UNCHANGED <<preview, domChanges, forceChecks, config, waiting, retryCount,
                 sinceStart, checks, lastStep>>
  /\ UNCHANGED besideHook

\* the interval of the periodic check fires: checkPreviewReadiness()
IntervalTick ==
  /\ hookPc = "mounted" /\ interval
  /\ state' = Checked(state, preview)
  /\ interval' = PeriodicCheck(state')
  /\ UNCHANGED <<preview, domChanges, forceChecks, config, hookPc, waiting,
                 retryCount, sinceStart, checks, lastStep>>
  /\ UNCHANGED besideHook

\* the page changes the preview element
DomChange ==
  /\ hookPc = "mounted" /\ domChanges < MaxDomChanges
  /\ preview' \in Previews \ {preview}
  /\ domChanges' = domChanges + 1
  /\ UNCHANGED <<state, interval, forceChecks, config, hookPc, waiting,
                 retryCount, sinceStart, checks, lastStep>>
  /\ UNCHANGED besideHook

\* forceCheck, called by the user
ForceCheck ==
  /\ hookPc = "mounted" /\ forceChecks < MaxForceChecks
  /\ forceChecks' = forceChecks + 1
  /\ state' = Checked(state, preview)
  /\ interval' = PeriodicCheck(state')
  /\ UNCHANGED <<preview, domChanges, config, hookPc, waiting, retryCount,
                 sinceStart, checks, lastStep>>
  /\ UNCHANGED besideHook

\* waitForPreviewReadiness is called
WaitForPreviewReadiness ==
  /\ hookPc = "mounted" /\ waiting = "idle"
  /\ waiting' = "loop"
  /\ retryCount' = 0
  /\ sinceStart' = 0
  /\ checks' = 0
  /\ lastStep' = "none"
  /\ UNCHANGED <<preview, domChanges, forceChecks, config, hookPc, state,
                 interval>>
  /\ UNCHANGED besideHook

\* the head of its loop and, in the loop, the check; after the loop the
\* final failure
WaitLoop ==
  /\ waiting = "loop"
  /\ IF LoopGoesOn(retryCount, sinceStart, config)
     THEN /\ checks' = checks + 1
          /\ lastStep' = "check"
          /\ state' = Checked([state EXCEPT !.retryCount = retryCount], preview)
          /\ IF checkElementReadiness(preview).ready
             THEN waiting' = "true" /\ UNCHANGED retryCount
             ELSE /\ retryCount' = retryCount + 1
                  /\ waiting' = IF retryCount + 1 < config.maxRetries
                                THEN "timer" ELSE "loop"
     ELSE /\ state' = [state EXCEPT !.isChecking = FALSE, !.isReady = FALSE,
                                    !.error = "Preview not ready",
                                    !.retryCount = retryCount]
          /\ waiting' = "false"
          /\ UNCHANGED <<retryCount, checks, lastStep>>
  /\ interval' = PeriodicCheck(state')
  /\ UNCHANGED <<preview, domChanges, forceChecks, config, hookPc, sinceStart>>
  /\ UNCHANGED besideHook

\* the timer of the wait before the next retry fires
WaitRetryDelay ==
  /\ waiting = "timer"
  /\ sinceStart' = sinceStart + config.retryDelay
  /\ lastStep' = "wait"
  /\ waiting' = "loop"
  /\ UNCHANGED <<preview, domChanges, forceChecks, config, hookPc, state,
                 interval, retryCount, checks>>
  /\ UNCHANGED besideHook

\* the state of useState before the mount
HookUnmounted ==
  /\ state = [isReady |-> FALSE, isChecking |-> FALSE, error |-> "null",
              retryCount |-> 0]
  /\ interval = FALSE
  /\ domChanges = 0
  /\ forceChecks = 0
  /\ waiting = "idle"
  /\ retryCount = 0
  /\ sinceStart = 0
  /\ checks = 0
  /\ lastStep = "none"

\* no component uses the hook
HookIdle ==
  /\ HookUnmounted
  /\ preview = "ready"
  /\ config = defaultConfig
  /\ hookPc = "idle"

HookNext ==
  \/ HookMount
  \/ IntervalTick
  \/ DomChange
  \/ ForceCheck
  \/ WaitForPreviewReadiness
  \/ WaitLoop
  \/ WaitRetryDelay

\* the parts outside the export calls and ExportOptions, before any of them
\* is used
MoreIdle ==
  WaitIdle /\ DetectIdle /\ GateIdle /\ ConvertIdle /\ HookIdle

WaitNext ==
  \/ WaitForElement
  \/ WaitForElementTimeout
  \/ WaitForElementAdvanced
  \/ CheckElementPolls
  \/ WaitForElementAdvancedCleanup
  \/ Mutation

----------------------------------------------------------------------------

Init ==
  /\ svc \in Services
  /\ fmt \in Formats
  /\ hasName \in (IF fmt = "word" THEN BOOLEAN ELSE {TRUE})
  /\ canvasApi \in (IF svc = "fallback" THEN BOOLEAN ELSE {TRUE})
  /\ pc = (IF svc \in {"robust", "improved"} THEN "loop" ELSE "invoke")
  /\ attempt = 1
  /\ clock = 0
  /\ trace = <<>>
  /\ lastError = <<>>
  /\ thrown = <<>>
  /\ outcome = "pending"
  /\ rejection = <<>>
  /\ lateSaves = 0
  /\ overlay = FALSE
  /\ resumeData = CHOOSE d \in ResumeDatas : d.personalInfo.fullName # ""
  /\ document = <<>>
  /\ filename = <<>>
  /\ safeFileName = <<>>
  /\ resanitized = <<>>
  /\ UiMounted
  /\ automaticBatching = TRUE
  /\ MoreIdle

Next ==
  \/ RobustLoopHead
  \/ RobustBackoff
  \/ RobustInvoke
  \/ ImprovedLoopHead
  \/ ImprovedBackoff
  \/ ImprovedInvoke
  \/ BasicCall
  \/ FallbackCall
  \/ SimpleCall

Spec == Init /\ [][Next]_vars

\* a wait for the target element, whatever the page does to the element
WaitInit ==
  /\ Parked
  /\ pc = "wait"
  /\ waiter \in {"basic", "improved"}
  /\ element \in Elements
  /\ elapsed = 0
  /\ polls = 0
  /\ observing = FALSE
  /\ timer = FALSE
  /\ waitPc = "idle"
  /\ DetectIdle
  /\ GateIdle
  /\ ConvertIdle
  /\ HookIdle

\* detectResumeElement over every page of at most MaxMatches matches; a
\* match is an element of Catalogue under the strategy whose selector
\* matches it
DetectInit ==
  /\ Parked
  /\ pc = "detect"
  /\ WaitIdle
  /\ page \in UNION { [1..n -> [strategy : 1..RobustStrategies,
                                 element : Catalogue]] : n \in 0..MaxMatches }
  /\ strategy = 1
  /\ bestMatch = NoMatch
  /\ detectPc = "scan"
  /\ GateIdle
  /\ ConvertIdle
  /\ HookIdle

DetectSpec == DetectInit /\ [][DetectNext]_vars

\* ensureResourcesLoaded over every target element of at most MaxImages
\* images, each complete or still loading, with and without document.fonts
GateInit ==
  /\ Parked
  /\ pc = "gate"
  /\ WaitIdle
  /\ DetectIdle
  /\ images \in UNION { [1..n -> {"complete", "loading"}] : n \in 0..MaxImages }
  /\ imageTimers = [i \in DOMAIN images |-> FALSE]
  /\ fonts \in {"absent", "loading"}
  /\ gatePc = "start"
  /\ gateProgress = 0
  /\ gateMs = 0
  /\ ConvertIdle
  /\ HookIdle

\* the event loop runs the function on, the timers fire and
\* document.fonts.ready settles; an image need neither load nor fail
GateSpec ==
  /\ GateInit /\ [][GateNext]_vars
  /\ WF_vars(EnsureResourcesLoaded)
  /\ WF_vars(\E i \in DOMAIN images : ImageTimeout(i))
  /\ WF_vars(ImagesSettled)
  /\ WF_vars(FontsSettle)
  /\ WF_vars(AwaitFonts)
  /\ WF_vars(LazyContentDelay)

\* an export call or a wait for the target element, where every external
\* call returns and every timer fires
SettleInit == Init \/ WaitInit

SettleNext == Next \/ WaitNext

SettleSpec ==
  /\ SettleInit /\ [][SettleNext]_vars
  /\ WF_vars(Next)
  /\ WF_vars(WaitForElement) /\ WF_vars(WaitForElementTimeout)
  /\ WF_vars(WaitForElementAdvanced) /\ WF_vars(CheckElementPolls)
  /\ WF_vars(WaitForElementAdvancedCleanup)

\* convertCanvasToDownload over every fate of the three formats
ConvertInit ==
  /\ Parked
  /\ pc = "convert"
  /\ WaitIdle
  /\ DetectIdle
  /\ GateIdle
  /\ fates \in [1..Len(ImageFormats) -> FormatFates]
  /\ formatIndex = 0
  /\ convertPc = "try"
  /\ settlements = <<>>
  /\ encodings = <<>>
  /\ convertMs = 0
  /\ HookIdle

ConvertSpec == ConvertInit /\ [][ConvertNext]_vars

\* a component that uses the hook, over every state of the preview element
\* at the mount
HookInit ==
  /\ Parked
  /\ pc = "hook"
  /\ WaitIdle
  /\ DetectIdle
  /\ GateIdle
  /\ ConvertIdle
  /\ HookUnmounted
  /\ preview \in Previews
  /\ config \in HookConfigs
  /\ hookPc = "mounting"

\* the effects run, the interval and the timers fire; the page and the user
\* act when they will
HookSpec ==
  /\ HookInit /\ [][HookNext]_vars
  /\ WF_vars(HookMount)
  /\ WF_vars(IntervalTick)
  /\ WF_vars(WaitLoop)
  /\ WF_vars(WaitRetryDelay)

\* downloadAsWord of the three classes that build a document from ResumeData,
\* over every ResumeData of ResumeDatas
WordInit ==
  /\ svc \in {"basic", "robust", "simple"}
  /\ fmt = "word"
  /\ resumeData \in ResumeDatas
  /\ hasName = (resumeData.personalInfo.fullName # "")
  /\ canvasApi = TRUE
  /\ pc = "word"
  /\ attempt = 1
  /\ clock = 0
  /\ trace = <<>>
  /\ lastError = <<>>
  /\ thrown = <<>>
  /\ outcome = "pending"
  /\ rejection = <<>>
  /\ lateSaves = 0
  /\ overlay = FALSE
  /\ document = <<>>
  /\ filename = <<>>
  /\ safeFileName = <<>>
  /\ resanitized = <<>>
  /\ UiMounted
  /\ automaticBatching = TRUE
  /\ MoreIdle

WordNext == BuildWordDocument \/ RefuseWordDocument

WordSpec == WordInit /\ [][WordNext]_vars

\* sanitizeFilename over every string of Filenames
NameInit ==
  /\ svc = "robust"
  /\ fmt = "png"
  /\ hasName = TRUE
  /\ canvasApi = TRUE
  /\ pc = "sanitize"
  /\ attempt = 1
  /\ clock = 0
  /\ trace = <<>>
  /\ lastError = <<>>
  /\ thrown = <<>>
  /\ outcome = "pending"
  /\ rejection = <<>>
  /\ lateSaves = 0
  /\ overlay = FALSE
  /\ resumeData = CHOOSE d \in ResumeDatas : d.personalInfo.fullName # ""
  /\ document = <<>>
  /\ filename \in Filenames
  /\ safeFileName = <<>>
  /\ resanitized = <<>>
  /\ UiMounted
  /\ automaticBatching = TRUE
  /\ MoreIdle

NameNext == Sanitize \/ Resanitize

NameSpec == NameInit /\ [][NameNext]_vars

\* ExportOptions and the exports its handlers start
UiInit ==
  /\ svc = "simple"
  /\ fmt = "pdf"
  /\ hasName = TRUE
  /\ canvasApi = TRUE
  /\ pc = "ui"
  /\ attempt = 1
  /\ clock = 0
  /\ trace = <<>>
  /\ lastError = <<>>
  /\ thrown = <<>>
  /\ outcome = "pending"
  /\ rejection = <<>>
  /\ lateSaves = 0
  /\ overlay = FALSE
  /\ resumeData = CHOOSE d \in ResumeDatas : d.personalInfo.fullName # ""
  /\ document = <<>>
  /\ filename = <<>>
  /\ safeFileName = <<>>
  /\ resanitized = <<>>
  /\ UiMounted
  /\ automaticBatching \in BOOLEAN
  /\ MoreIdle

\* the user downloads the formats one by one
UiNext ==
  \/ ClickDownload
  \/ RetryAutomated
  \/ ProgressCallback
  \/ HandleDownloadSettle
  \/ CancelDownload
  \/ Elapse

UiSpec == UiInit /\ [][UiNext]_vars

\* the user downloads all formats at once
BatchNext ==
  \/ ClickDownloadAll
  \/ BatchContinue
  \/ ProgressCallback
  \/ HandleDownloadSettle
  \/ CancelDownload
  \/ Elapse

BatchSpec == UiInit /\ [][BatchNext]_vars

----------------------------------------------------------------------------
(* Properties *)

Kind(k) == SelectSeq(trace, LAMBDA x : x.k = k)

Events == Kind("event")

NInvoke == Len(Kind("invoke"))

Retrying == SelectSeq(trace, LAMBDA x : x.k = "event" /\ x.stage = "retrying")

\* every invocation of the operation made so far threw
AllThrew == NInvoke >= 1 /\ Len(thrown) = NInvoke

\* a message the spec calls structural
ClassifiedStructural(msg) ==
  Includes(msg, <<"not", "find">>) \/ Includes(msg, <<"detection", "strategies.">>)

AllThrewTransient ==
  AllThrew /\ \A i \in 1..Len(thrown) : ~ClassifiedStructural(thrown[i])

\* C1: ImprovedDownloadService.downloadWithRetry invokes an operation that
\* throws every time exactly 3 times, then rejects with a message that
\* contains the message of the error the last invocation threw.
C1_ImprovedRetryCeiling ==
  svc = "improved" =>
    /\ NInvoke <= 3
    /\ (pc = "done" /\ AllThrew) =>
         /\ outcome = "rejected"
         /\ NInvoke = 3
         /\ Includes(rejection, thrown[3])
         /\ Includes(rejection, <<"Last", "error:">> \o thrown[3])

C1_Witness ==
  /\ svc = "improved" /\ pc = "done" /\ outcome = "rejected"
  /\ NInvoke = 3 /\ Len(thrown) = 3
  /\ thrown[1] # thrown[3] /\ thrown[2] # thrown[3]

\* an attempt of the retrying RobustDownloadService failed later than
\* timeoutMs after the start of the call, with attempts remaining: the check
\* at the top of the next iteration sees the budget exceeded
FailedPastBudget ==
  \E i \in DOMAIN trace :
    trace[i].k = "fail" /\ trace[i].attempt < 5 /\ trace[i].ms > 60000

C3_StructuralShortCircuit ==
  svc = "robust" =>
    \A i \in 1..Len(thrown) :
      ClassifiedStructural(thrown[i]) =>
        /\ i = Len(thrown) /\ NInvoke = i
        /\ pc = "done" /\ outcome = "rejected"
        /\ trace[Len(trace)].k = "fail"
        /\ clock = trace[Len(trace)].ms
        /\ Len(Retrying) = i - 1 /\ Len(Kind("delay")) = i - 1

C3_Witness ==
  /\ svc = "robust" /\ pc = "done" /\ outcome = "rejected"
  /\ Len(thrown) = 1 /\ ClassifiedStructural(thrown[1])
  /\ NInvoke = 1 /\ Retrying = <<>> /\ Kind("delay") = <<>>

\* C4: the retrying RobustDownloadService.executeWithRetry starts no
\* invocation of the operation later than timeoutMs (60000 ms) after the
\* start of the call.
C4_NoInvocationPastBudget ==
  svc = "robust" =>
    \A i \in DOMAIN trace : trace[i].k = "invoke" => trace[i].ms <= 60000

\* the delay the spec prescribes before attempt n
SpecifiedDelay(baseDelay, multiplier, maxDelay, n) ==
  Min(baseDelay * Pow(multiplier, n - 2), maxDelay)

\* C5: in both retry controllers the delay waited before attempt n > 1 is
\* min(baseDelay * backoffMultiplier^(n-2), maxDelay): 2000, 4000, 8000,
\* 16000, 30000 for baseDelay 2000, multiplier 2, maxDelay 30000.
C5_BackoffDelays ==
  \A i \in DOMAIN trace :
    trace[i].k = "delay" =>
      /\ svc = "robust" =>
           trace[i].ms = SpecifiedDelay(2000, 2, 30000, trace[i].attempt)
      /\ svc = "improved" =>
           trace[i].ms = SpecifiedDelay(1000, 2, 10000, trace[i].attempt)

IsStage(x, stage) == x.k = "event" /\ x.stage = stage

OfStage(stage) == SelectSeq(trace, LAMBDA x : IsStage(x, stage))

\* C6: an export of RobustDownloadService (retrying variant) or
\* ImprovedDownloadService that resolves has triggered a file-save exactly
\* once during the call and ends with a 'complete' event, and no call emits
\* 'complete' without having triggered a file-save.
C6_SaveOnceThenComplete ==
  svc \in {"robust", "improved"} =>
    /\ outcome = "resolved" =>
         /\ Len(Kind("save")) = 1
         /\ Events # <<>> /\ Events[Len(Events)].stage = "complete"
    /\ OfStage("complete") # <<>> => Len(Kind("save")) >= 1

\* C7: when an export call rejects, of whatever service class and format, its
\* progress events end with an 'error' event, the only one of the call.
C7_RejectionEndsWithOneError ==
  outcome = "rejected" =>
    /\ Events # <<>> /\ Events[Len(Events)].stage = "error"
    /\ Len(OfStage("error")) = 1

\* the stage order of the spec: preparing < detecting/loading < generating <
\* downloading < complete
SpecifiedRank(stage) ==
  CASE stage = "preparing" -> 1
    [] stage \in {"detecting", "loading"} -> 2
    [] stage = "generating" -> 3
    [] stage = "downloading" -> 4
    [] stage = "complete" -> 5
    [] OTHER -> 6

\* the stage order of the pipelines: detecting < preparing < loading <
\* generating < downloading < complete
EmittedRank(stage) ==
  CASE stage = "detecting" -> 1
    [] stage = "preparing" -> 2
    [] stage = "loading" -> 3
    [] stage = "generating" -> 4
    [] stage = "downloading" -> 5
    [] stage = "complete" -> 6
    [] OTHER -> 7

NonDecreasing(Rank(_)) ==
  \A i \in 1..(Len(Events) - 1) :
    Rank(Events[i].stage) <= Rank(Events[i + 1].stage)

OneCompleteAtEnd ==
  /\ Events # <<>> /\ Events[Len(Events)].stage = "complete"
  /\ Len(OfStage("complete")) = 1

\* C8 as stated: the stages of a successful single-attempt export are
\* non-decreasing in the order preparing < detecting/loading < generating <
\* downloading < complete and end with exactly one 'complete'.
C8_StagesInSpecifiedOrder ==
  (outcome = "resolved" /\ NInvoke = 1) =>
    NonDecreasing(SpecifiedRank) /\ OneCompleteAtEnd

\* C8 amended: the stages of a successful single-attempt export are
\* non-decreasing in the order detecting < preparing < loading < generating <
\* downloading < complete and end with exactly one 'complete'.
C8_StagesInEmittedOrder ==
  (outcome = "resolved" /\ NInvoke = 1) =>
    NonDecreasing(EmittedRank) /\ OneCompleteAtEnd

C8_Witness ==
  /\ svc = "robust" /\ fmt = "png" /\ outcome = "resolved" /\ NInvoke = 1
  /\ OfStage("detecting") # <<>> /\ OfStage("preparing") # <<>>
  /\ OfStage("loading") # <<>> /\ OfStage("generating") # <<>>

\* C9: within one attempt of an export of RobustDownloadService (either
\* variant) the progress values of successive events do not decrease, and a
\* 'retrying' event carries progress 0.
C9_ProgressMonotone ==
  svc \in {"robust", "simple"} =>
    /\ \A i \in DOMAIN trace : IsStage(trace[i], "retrying") => trace[i].progress = 0
    /\ \A i, j \in DOMAIN trace :
         ( /\ i < j
           /\ trace[i].k = "event" /\ trace[j].k = "event"
           /\ \A m \in i..j : trace[m].k # "invoke" /\ ~IsStage(trace[m], "retrying") )
         => trace[i].progress <= trace[j].progress

\* the attempt ceiling each retry controller is configured with
Ceiling == IF svc = "robust" THEN 5 ELSE 3

\* C10: in both retry controllers every attempt n >= 2 that is started is
\* announced by exactly one 'retrying' event with attempt = n and maxAttempts
\* = the ceiling, emitted right after attempt n-1 failed and before the
\* backoff delay and the n-th invocation; no 'retrying' event precedes
\* attempt 1, falls inside an attempt or follows the final attempt.
C10_RetryingAtAttemptBoundaries ==
  svc \in {"robust", "improved"} =>
    /\ \A i \in DOMAIN trace :
         IsStage(trace[i], "retrying") =>
           /\ trace[i].attempt >= 2 /\ trace[i].max = Ceiling
           /\ i > 1 /\ trace[i - 1].k = "fail"
           /\ trace[i - 1].attempt = trace[i].attempt - 1
           /\ IF i < Len(trace)
              THEN trace[i + 1].k = "delay" /\ trace[i + 1].attempt = trace[i].attempt
              ELSE pc = "backoff"
    /\ \A j \in DOMAIN trace :
         trace[j].k = "invoke" =>
           IF trace[j].attempt = 1 THEN j = 1
           ELSE /\ j > 2
                /\ trace[j - 1].k = "delay" /\ trace[j - 1].attempt = trace[j].attempt
                /\ IsStage(trace[j - 2], "retrying")
                /\ trace[j - 2].attempt = trace[j].attempt
    /\ \A i, j \in DOMAIN trace :
         ( /\ IsStage(trace[i], "retrying") /\ IsStage(trace[j], "retrying")
           /\ trace[i].attempt = trace[j].attempt ) => i = j

C10_Witness ==
  /\ svc \in {"robust", "improved"} /\ pc = "done"
  /\ NInvoke = 3 /\ Len(Retrying) = 2
  /\ Retrying[1].attempt = 2 /\ Retrying[2].attempt = 3

\* a file-save method is tried at position i of the trace
Tried(i, method) == trace[i].k = "try" /\ trace[i].stage = method

\* C11: createDownloadLink of RobustDownloadService (either variant) tries
\* saveAs first, the anchor with a download attribute second and the data URL
\* third, stops at the first method that does not throw, shows the overlay
\* only when all three threw, and never throws to its caller.
C11_SaveChainContract ==
  svc \in {"robust", "simple"} =>
    /\ \A i \in DOMAIN trace :
         /\ Tried(i, "saveAs") => (i > 1 /\ trace[i - 1].k # "try")
         /\ Tried(i, "anchor") => (i > 1 /\ Tried(i - 1, "saveAs"))
         /\ Tried(i, "dataUrl") => (i > 1 /\ Tried(i - 1, "anchor"))
         /\ trace[i].k = "save" =>
              (i > 1 /\ trace[i - 1].k = "try"
                /\ (i < Len(trace) => trace[i + 1].k # "try"))
         /\ trace[i].k = "fail" => (i > 1 /\ trace[i - 1].k # "try")
    /\ overlay =>
         \E i \in DOMAIN trace :
           /\ i > 2 /\ Tried(i, "dataUrl")
           /\ trace[i - 1].k = "try" /\ trace[i - 2].k = "try"
           /\ lateSaves = 0

\* the texts of the section headings of the document, in document order
SectionHeadings ==
  LET hs == SelectSeq(document, LAMBDA q : q.heading = "HEADING_2")
  IN [i \in DOMAIN hs |-> hs[i].text[1]]

\* the headings C12 asks for: one per non-empty part of the ResumeData, in
\* the order objective, experience, skills, education, certifications
ExpectedHeadings ==
  (IF resumeData.personalInfo.objective # "" THEN <<"OBJECTIVE">> ELSE <<>>)
  \o (IF resumeData.experience # <<>> THEN <<"PROFESSIONAL EXPERIENCE">> ELSE <<>>)
  \o (IF resumeData.skills # <<>> THEN <<"SKILLS">> ELSE <<>>)
  \o (IF resumeData.education # <<>> THEN <<"EDUCATION">> ELSE <<>>)
  \o (IF resumeData.certifications # <<>> THEN <<"CERTIFICATIONS">> ELSE <<>>)

\* the education records are the paragraphs right after the EDUCATION heading,
\* one per record and in input order, and the section ends after them
EducationEntriesFollow ==
  resumeData.education # <<>> =>
    \E i \in DOMAIN document :
      /\ document[i] = Paragraph("HEADING_2", <<"EDUCATION">>)
      /\ i + Len(resumeData.education) <= Len(document)
      /\ \A k \in DOMAIN resumeData.education :
           document[i + k].heading = ""
           /\ document[i + k].text[1] = resumeData.education[k].degree
           /\ Includes(document[i + k].text, <<resumeData.education[k].institution>>)
           /\ Includes(document[i + k].text, <<resumeData.education[k].year>>)
      /\ LET after == i + Len(resumeData.education) + 1
         IN after <= Len(document) => document[after] = EmptyParagraph

\* C12: the Word document of downloadAsWord (DownloadService and both
\* variants of RobustDownloadService) has, for each of objective, experience,
\* skills, education, certifications, the section heading exactly once when
\* the part is non-empty and not at all when it is empty, in that order, and
\* the EDUCATION heading is followed by one entry per education record in
\* input order.
C12_WordSectionsFollowResumeData ==
  pc = "built" => (SectionHeadings = ExpectedHeadings /\ EducationEntriesFollow)

\* the DOM states the detections of the call met, in order
Detected ==
  LET ds == Kind("detect") IN [i \in DOMAIN ds |-> ds[i].stage]

\* every invocation so far met the target element in the DOM with zero width
\* or height, and no other candidate
AlwaysZeroSize ==
  NInvoke >= 1 /\ Len(Detected) = NInvoke /\ \A i \in DOMAIN Detected : Detected[i] = "zero"

\* C13: a PNG or PDF export of the retrying RobustDownloadService whose
\* target element is in the DOM with zero width or height is treated as a
\* transient failure: it is retried up to the attempt ceiling of 5 (the
\* backoff delays alone fit the time budget) before the call rejects.
C13_ZeroSizeIsRetried ==
  (svc = "robust" /\ fmt \in {"png", "pdf"} /\ pc = "done" /\ AlwaysZeroSize) =>
    /\ outcome = "rejected"
    /\ NInvoke = 5

\* C14: a PNG export of the simplified RobustDownloadService against a target
\* element of zero height rejects, and emits no 'complete' event.
C14_SimpleZeroHeightRejects ==
  (svc = "simple" /\ fmt = "png" /\ pc = "done" /\ AlwaysZeroSize) =>
    /\ outcome = "rejected"
    /\ OfStage("complete") = <<>>

\* C15: sanitizeFilename is idempotent: sanitizing a sanitized name yields
\* the same name.
C15_SanitizeIdempotent ==
  pc = "sanitized" => resanitized = safeFileName

C15_Witness ==
  /\ pc = "sanitized" /\ safeFileName # filename
  /\ \E i \in DOMAIN safeFileName : safeFileName[i] = "_"
  /\ \E i \in DOMAIN filename : filename[i] = "/"

NoUnderscoreRunOrEdge(str) ==
  /\ \A i \in 1..(Len(str) - 1) : ~(str[i] = "_" /\ str[i + 1] = "_")
  /\ str # <<>> => (str[1] # "_" /\ str[Len(str)] # "_")

\* C16 as stated: the result of sanitizeFilename has only characters of
\* [a-z0-9.\-_], lower-case letters that is, no two consecutive underscores
\* and no underscore at its start or end.
C16_OnlyLowerCaseCharacters ==
  pc # "sanitize" =>
    /\ \A i \in DOMAIN safeFileName : safeFileName[i] \in {"a", "7", ".", "-", "_"}
    /\ NoUnderscoreRunOrEdge(safeFileName)

\* C16 amended: the result of sanitizeFilename has only characters of
\* [A-Za-z0-9.\-_], letters of either case, no two consecutive underscores
\* and no underscore at its start or end.
C16_OnlyFilenameCharacters ==
  pc # "sanitize" =>
    /\ \A i \in DOMAIN safeFileName :
         safeFileName[i] \in {"a", "Z", "7", ".", "-", "_"}
    /\ NoUnderscoreRunOrEdge(safeFileName)

C16_Witness ==
  /\ pc # "sanitize"
  /\ filename = <<"Z", "/", "/", "a">>
  /\ safeFileName = <<"Z", "_", "a">>

\* the exports started by the loop of Download All, in the order started
BatchOps == SelectSeq(ops, LAMBDA o : o.batch)

\* C17: Download All exports the formats in the order pdf, word, png; an
\* export of the batch starts only when the export before it has settled and
\* the inter-format delay is over, so no two exports of the batch are ever in
\* flight together.
C17_BatchIsSequential ==
  /\ Len(BatchOps) <= Len(BatchFormats)
  /\ \A k \in DOMAIN BatchOps :
       /\ BatchOps[k].format = BatchFormats[k]
       /\ BatchOps[k].status = "running" => (k = Len(BatchOps) /\ batchPc = "run")
  /\ batchPc \in {"delay", "done"} =>
       \A k \in DOMAIN BatchOps : BatchOps[k].status # "running"

C17_Witness ==
  /\ Len(BatchOps) = 3
  /\ BatchOps[1].status = "rejected"
  /\ BatchOps[2].status = "resolved"
  /\ BatchOps[3].status = "running" /\ BatchOps[3].step > 0

\* C18: when the export of a format rejects, at the end of handleDownload the
\* format is in failedDownloads, the manual-fallback panel is shown for it and
\* isDownloading and downloadProgress are null; when a download of a format
\* starts, the format is removed from failedDownloads; when the export
\* resolves, at the end of handleDownload the format is not in failedDownloads
\* and isDownloading and downloadProgress are null.
C18_HandleDownloadOutcome ==
  \A o \in DOMAIN ops :
    /\ ops[o].startClear
    /\ ops[o].status = "rejected" =>
         /\ ops[o].atFinish.failed
         /\ ops[o].atFinish.fallback = ops[o].format
         /\ ops[o].atFinish.isDownloading = "null"
         /\ ops[o].atFinish.progress = NoProgress
    /\ ops[o].status = "resolved" =>
         /\ ~ops[o].atFinish.failed
         /\ ops[o].atFinish.isDownloading = "null"
         /\ ops[o].atFinish.progress = NoProgress

\* export o is the download in progress: it is in flight, the user has not
\* cancelled it, it was started when every other export in flight had been
\* cancelled, and no download was started after it
InProgress(o) ==
  /\ ops[o].status = "running" /\ ~ops[o].cancelled
  /\ ops[o].alone /\ o = Len(ops)

\* C19: an export the user has cancelled keeps running but is disengaged from
\* the UI: its later progress events do not change downloadProgress, and when
\* it settles it neither resets isDownloading or downloadProgress of a
\* download started after the cancel nor marks that download as failed.
C19_CancelDisengages ==
  /\ (downloadProgress # NoProgress /\ ~downloadProgress.forced) =>
       ~ops[downloadProgress.op].cancelled
  /\ \A o \in DOMAIN ops :
       InProgress(o) =>
         /\ isDownloading = ops[o].format
         /\ ops[o].format \notin failedDownloads
         /\ downloadProgress.op \in {0, o}

\* the timer with id t was armed for the most recent progress event of an
\* export that is still in flight
ForLatestEventInFlight(t) ==
  /\ ops[t.op].status = "running"
  /\ t.idx = ops[t.op].idx

\* C20: the watchdog forces downloadProgress to stage 'error' only 30 s after
\* the most recent progress event of an export that is still in flight, the
\* stage of that event being neither complete nor error; every new progress
\* event and the end of the export cancel every watchdog timer armed before,
\* so an armed timer is that of the latest event of an export in flight.
C20_WatchdogContract ==
  /\ downloadProgress.forced => ForLatestEventInFlight(downloadProgress)
  /\ \A k \in DOMAIN timers : ForLatestEventInFlight(timers[k])

\* C21: every export call, of any service class and for any format, settles
\* in the end, and so does every wait for the target element, whether the
\* element never appears, never becomes ready, or comes and goes.
C21_EveryCallSettles ==
  <>(IF pc = "wait" THEN waitPc \in {"resolved", "rejected"}
     ELSE outcome # "pending")

C21_Witness ==
  /\ pc = "wait" /\ waiter = "improved" /\ waitPc = "rejected"
  /\ element = "zero" /\ elapsed = ImprovedWaitTimeout

\* the scores of the candidates that the strategies match
CandidateScores == { scoreElement(page[i].element) : i \in DOMAIN page }

\* C22: when a candidate of positive score exists, detectResumeElement
\* returns an element whose score is the maximum over all the candidates
\* matched by any strategy; it throws only when no candidate scores above 0.
C22_ReturnsMaximumScore ==
  /\ detectPc = "returned" =>
       /\ bestMatch.score > 0
       /\ \A sc \in CandidateScores : bestMatch.score >= sc
  /\ detectPc = "threw" => \A sc \in CandidateScores : sc = 0
  /\ (strategy > RobustStrategies /\ detectPc # "scan"
        /\ \E sc \in CandidateScores : sc > 0) => detectPc = "returned"

\* the calls of the rasterizer in the trace
Rasters == { p \in DOMAIN trace : trace[p].k = "raster" }

\* positions p <= q of the trace lie in one invocation of the operation
SameInvocation(p, q) == \A m \in (p + 1)..q : trace[m].k # "invoke"

\* q is the call of the rasterizer that follows the call p in its invocation
NextRaster(p, q) ==
  /\ q \in Rasters /\ p < q /\ SameInvocation(p, q)
  /\ \A m \in Rasters : ~(p < m /\ m < q)

\* the attempt number of the invocation that position p lies in
InvocationOf(p) ==
  LET starts == { m \in 1..p : trace[m].k = "invoke" }
  IN trace[CHOOSE m \in starts : \A o \in starts : o <= m].attempt

AllCaptureFailed(msg) ==
  \/ /\ svc = "robust"
     /\ Includes(msg, <<"canvas", "capture", "strategies", "failed.">>)
  \/ /\ svc = "improved"
     /\ Includes(msg, <<"canvas", "capture", "methods", "failed.">>)

\* C23: captureElementAsCanvas of the retrying RobustDownloadService and
\* captureElementWithFallbacks of ImprovedDownloadService call the rasterizer
\* with the presets in the order high (scale 3), medium (scale 2), basic
\* (scale 1); the first canvas of non-zero width and height is returned and
\* no later preset is tried; the capture throws exactly when all three
\* presets threw or gave a canvas of zero size.
C23_PresetsInOrder ==
  svc \in {"robust", "improved"} =>
    /\ \A p \in Rasters :
         /\ trace[p].attempt \in 0..2
         /\ trace[p].max = 3 - trace[p].attempt
         /\ (\A m \in Rasters : ~(m < p /\ SameInvocation(m, p)))
              => trace[p].attempt = 0
         /\ \A q \in Rasters :
              NextRaster(p, q) =>
                /\ trace[q].attempt = trace[p].attempt + 1
                /\ trace[p].stage # "ok"
         /\ (trace[p].stage # "ok" /\ trace[p].attempt < 2)
              => \E q \in Rasters : NextRaster(p, q)
         /\ (trace[p].stage # "ok" /\ trace[p].attempt = 2)
              => /\ InvocationOf(p) <= Len(thrown)
                 /\ AllCaptureFailed(thrown[InvocationOf(p)])
         /\ trace[p].stage = "ok"
              => ~(/\ InvocationOf(p) <= Len(thrown)
                   /\ AllCaptureFailed(thrown[InvocationOf(p)]))
    /\ \A n \in DOMAIN thrown :
         AllCaptureFailed(thrown[n]) =>
           \E p \in Rasters :
             /\ InvocationOf(p) = n
             /\ trace[p].attempt = 2 /\ trace[p].stage # "ok"

\* the third preset gave the canvas after the first two had failed, and in
\* another call of the same export all three failed
C23_Witness ==
  /\ svc \in {"robust", "improved"}
  /\ \E p \in Rasters : trace[p].attempt = 2 /\ trace[p].stage = "ok"
  /\ \E n \in DOMAIN thrown : AllCaptureFailed(thrown[n])

\* C24: ensureResourcesLoaded never rejects and always completes: the wait
\* for an image ends at its load, its error or its 5000 ms timeout, so an
\* image that never settles does not block, and a rejected
\* document.fonts.ready is caught.
C24_GateCompletes ==
  /\ [](gatePc # "rejected")
  /\ <>(gatePc = "done")
  /\ [](gatePc = "done" =>
         /\ \A i \in DOMAIN images : ImageSettled(images[i])
         /\ gateMs <= ImageTimeoutMs + LazyContentMs)

\* the gate is passed with an image that timed out and rejected fonts
C24_Witness ==
  /\ gatePc = "done"
  /\ \E i \in DOMAIN images : images[i] = "timedout"
  /\ fonts = "rejected"

\* the formats canvas.toBlob has been called with and that are done with
FormatDone(i) ==
  i <= Len(encodings) /\ (i < Len(encodings) \/ convertPc # "blob")

\* C25: convertCanvasToDownload tries PNG, JPEG, WebP in this order and
\* goes to the next only when toBlob or the save of the current one failed;
\* its promise settlements exactly once: it resolves at the first format whose
\* save returns, after which no format is tried, and it rejects only when
\* all three have failed.
C25_FirstSavedFormatWins ==
  /\ Len(encodings) <= Len(ImageFormats)
  /\ encodings = SubSeq(ImageFormats, 1, Len(encodings))
  /\ \A i \in 1..(Len(encodings) - 1) : fates[i] # "saved"
  /\ Len(settlements) <= 1
  /\ convertPc = "end" <=> Len(settlements) = 1
  /\ settlements = <<"resolve">> =>
       /\ encodings # <<>>
       /\ fates[Len(encodings)] = "saved"
  /\ settlements = <<"reject">> =>
       /\ Len(encodings) = Len(ImageFormats)
       /\ \A i \in DOMAIN fates : fates[i] # "saved"
  /\ (\E i \in DOMAIN fates : fates[i] = "saved" /\ FormatDone(i))
       => settlements = <<"resolve">>

\* the save of the PNG threw, toBlob gave no JPEG, the WebP was saved
C25_Witness ==
  /\ fates = <<"savefails", "noblob", "saved">>
  /\ settlements = <<"resolve">>
  /\ encodings = ImageFormats
  /\ convertMs = 2 * NextFormatMs

\* C26: at the end of Download All successCount is the number of formats
\* whose export resolved and failureCount the number whose export rejected,
\* so that 'All Downloads Complete' is shown only when all three succeeded.
C26_BatchCountsAccurate ==
  batchPc = "done" =>
    /\ successCount
         = Cardinality({j \in DOMAIN BatchOps : BatchOps[j].status = "resolved"})
    /\ failureCount
         = Cardinality({j \in DOMAIN BatchOps : BatchOps[j].status = "rejected"})
    /\ batchToast = "All Downloads Complete" =>
         \A j \in DOMAIN BatchOps : BatchOps[j].status = "resolved"

\* the call is DownloadService.downloadAsPNG and its failure happened in the
\* callback of canvas.toBlob
FailedInToBlobCallback ==
  /\ svc = "basic" /\ fmt = "png" /\ outcome = "rejected"
  /\ rejection \in {BlobNullMsg, UnableToDownloadMsg}

\* C27: when downloadAsPNG of DownloadService fails inside the callback of
\* canvas.toBlob (null blob, or the save throws), the call rejects, and
\* before the rejection reaches the caller the error is logged through
\* DownloadDebugger.logDownloadError and an 'error' event is emitted.
C27_CallbackFailureReported ==
  FailedInToBlobCallback =>
    \E p, q \in DOMAIN trace :
      /\ p < q
      /\ trace[p] = LogItem
      /\ trace[q].k = "event" /\ trace[q].stage = "error"

\* C28: when the preview element stops passing the readiness check after
\* isReady became true, isReady becomes false in the end, with no call of
\* forceCheck or reset.
C28_ReadinessTracksDom ==
  (state.isReady /\ preview # "ready") ~> (~state.isReady \/ preview = "ready")

\* C29: waitForPreviewReadiness makes at most maxRetries checks, returns
\* true as soon as a check finds the element ready and false otherwise,
\* waits retryDelay only between two checks and never after the last one,
\* and when it returns false isReady and isChecking are false and error is
\* not null.
C29_WaitForPreviewContract ==
  /\ [](checks <= config.maxRetries)
  /\ [](waiting \in {"true", "false"} => lastStep # "wait")
  /\ [][/\ (checks' = checks + 1 /\ preview = "ready") => waiting' = "true"
        /\ (waiting # "true" /\ waiting' = "true") =>
             checks' = checks + 1 /\ preview = "ready"
        /\ (waiting # "false" /\ waiting' = "false") =>
             /\ ~state'.isReady /\ ~state'.isChecking
             /\ state'.error # "null"]_vars

\* C30: the Word export does not depend on the preview element:
\* handleDownload('word') calls downloadAsWord whether or not a resume
\* preview element is in the page, and the export can then succeed.
C30_WordNeedsNoPreview ==
  \A j \in DOMAIN ops :
    ops[j].format = "word" => ops[j].steps # <<>>

====
